---------------------------- MODULE Spec2Model ----------------------------
(***************************************************************************)
(* DocForge job orchestrator (backend/app/foxit/pipeline.py) with its      *)
(* collaborators: the release model (models/release.py), the asset         *)
(* resolver (pipeline/resolve_assets.py), the PDF Services client          *)
(* (foxit/pdfservices.py), the Document Generation client                  *)
(* (foxit/docgen.py) and the verifier (pdf/verify.py).                     *)
(*                                                                         *)
(* Conventions.  A Python value that may be None is a sequence of length   *)
(* 0 (None) or 1 (the value).  A Python str that the code inspects         *)
(* character by character is a sequence of one-character strings; a str    *)
(* the code only passes around is a TLA+ string.  A Python dict is a       *)
(* function whose DOMAIN is its key set.  Wall-clock durations             *)
(* (StepTiming.duration_ms) are not modelled.                              *)
(***************************************************************************)
EXTENDS Integers, Sequences, FiniteSets, TLC

(***************************************************************************)
(* Bounds of the model.                                                    *)
(***************************************************************************)
\* run() may be invoked this many times on one orchestrator object
MaxRuns == 2
\* settings.poll_interval and settings.poll_timeout (core/config.py), seconds
PollInterval == 1
PollTimeout == 2

(***************************************************************************)
(* Program constants.                                                      *)
(***************************************************************************)
MAX_RETRIES == 1
\* sizes are in MiB: 10 * 1024 * 1024 bytes is 10
MAX_FILE_SIZE == 10
MAX_TOTAL_SIZE == 50
MAX_ASSET_COUNT == 20
PRODUCT_NAME_MAX == 200
VERSION_MAX == 50

None == <<>>
Some(x) == <<x>>
IsNone(o) == o = <<>>
IsSome(o) == o # <<>>
Get(o) == o[1]

(***************************************************************************)
(* JobState, models/job.py                                                 *)
(***************************************************************************)
JobState ==
    {"RECEIVED", "VALIDATED", "ASSET_RESOLVED", "BASE_PDF_GENERATED",
     "POST_PROCESSED", "VERIFIED", "DELIVERED", "FAILED"}

(***************************************************************************)
(* errors.py: the DocForgeError hierarchy.  An exception is a record       *)
(* [type, code]; an exception that is no DocForgeError has no code         *)
(* attribute, written code = "".                                           *)
(***************************************************************************)
DocForgeErrorTypes ==
    {"ValidationError", "AssetNotFoundError", "AssetPathTraversalError",
     "AssetTooLargeError", "AssetTypeBlockedError", "EngineError",
     "LatexCompileError", "LatexTimeoutError", "FoxitAPIError",
     "VerificationFailedError", "OCRLowConfidenceError", "OCRExtractionError"}

\* ErrorCode with the ValidationError's code left out
ErrorCodeUnset(type) ==
    CASE type = "AssetNotFoundError" -> "ASSET_NOT_FOUND"
      [] type = "AssetPathTraversalError" -> "ASSET_PATH_TRAVERSAL"
      [] type = "AssetTooLargeError" -> "ASSET_TOO_LARGE"
      [] type = "AssetTypeBlockedError" -> "ASSET_TYPE_BLOCKED"
      [] type = "LatexCompileError" -> "LATEX_COMPILE_FAILED"
      [] type = "LatexTimeoutError" -> "LATEX_TIMEOUT"
      [] OTHER -> ""
ErrorCode(type) ==
    CASE type = "ValidationError" -> "VALIDATION_FAILED"
      [] type = "AssetNotFoundError" -> "ASSET_NOT_FOUND"
      [] type = "AssetPathTraversalError" -> "ASSET_PATH_TRAVERSAL"
      [] type = "AssetTooLargeError" -> "ASSET_TOO_LARGE"
      [] type = "AssetTypeBlockedError" -> "ASSET_TYPE_BLOCKED"
      [] type = "LatexCompileError" -> "LATEX_COMPILE_FAILED"
      [] type = "LatexTimeoutError" -> "LATEX_TIMEOUT"
      [] type = "VerificationFailedError" -> "VERIFICATION_FAILED"
      [] type = "OCRLowConfidenceError" -> "OCR_LOW_CONFIDENCE"
      [] type = "OCRExtractionError" -> "OCR_EXTRACTION_FAILED"
      \* f"{engine.upper()}_ERROR" and f"FOXIT_{api}_ERROR", for one engine / api
      [] type = "EngineError" -> "DOCGEN_ERROR"
      [] type = "FoxitAPIError" -> "FOXIT_PDF_SERVICES_ERROR"
      [] OTHER -> ""

\* an exception object: errors.py for the DocForgeError subclasses, the
\* builtin / httpx / fitz exception otherwise.  detail is the list attached
\* to a ValidationError.
Exc(type, detail) == [type |-> type, code |-> ErrorCode(type), detail |-> detail]

IsDocForgeError(e) == e.type \in DocForgeErrorTypes

(***************************************************************************)
(* Inputs.  release_data is the raw dict handed to the constructor; the    *)
(* keys it may carry here are product_name, version, breaking_changes,     *)
(* images and attachments.                                                 *)
(***************************************************************************)
Acme == <<"A", "c", "m", "e">>
MyApp == <<"M", "y", " ", "A", "p", "!">>
V100 == <<"1", ".", "0", ".", "0">>

ProductNames == {<<>>, Acme, MyApp}
Versions == {<<>>, V100}

\* one breaking change with and one without its migration note
BreakingLists ==
    {<< >>,
     << [title |-> <<"t">>, description |-> <<"d">>, migration |-> <<"m">>] >>,
     << [title |-> <<"t">>, description |-> <<"d">>, migration |-> <<>>] >>}

ImageLists ==
    {<< >>,
     << [path |-> "logo.png"] >>,
     << [path |-> "../../etc/passwd"] >>,
     << [path |-> "/etc/passwd"] >>,
     << [path |-> "logo.png"], [path |-> "missing.png"] >>,
     << [path |-> "tool.exe"] >>,
     << [path |-> "huge.png"] >>,
     << [path |-> ""] >>}

AttachmentLists ==
    {<< >>,
     << [label |-> <<"n">>, path |-> "notes.txt"] >>}

\* the dict with these lists and no product_name / version key
Lists(b, i, a) == [breaking_changes |-> b, images |-> i, attachments |-> a]

WithKey(d, k, v) == [x \in DOMAIN d \cup {k} |-> IF x = k THEN v ELSE d[x]]

\* every way product_name and version can be absent, empty or given
KeyVariants(d) ==
    {d}
    \cup {WithKey(d, "product_name", p) : p \in ProductNames}
    \cup {WithKey(d, "version", v) : v \in Versions}
    \cup {WithKey(WithKey(d, "product_name", p), "version", v) :
            p \in ProductNames, v \in Versions}

Doc(b, i, a) == WithKey(WithKey(Lists(b, i, a), "product_name", Acme), "version", V100)

\* {"product_name": "Acme", "version": "1.0.0"}
MinimalDoc == Doc(<< >>, << >>, << >>)

\* a Python value json.dumps has no encoding for: a set, a date, an object
NotJson == [python_object |-> "set"]
\* the minimal document with a key ReleaseModel does not know, which
\* pydantic ignores, holding such a value
ExtraKeyDoc == WithKey(MinimalDoc, "build", NotJson)

RawInputs ==
    {ExtraKeyDoc} \cup
    KeyVariants(Lists(<< >>, << >>, << >>))
    \cup KeyVariants(Lists(<< >>, << [path |-> "logo.png"] >>, << >>))
    \cup {Doc(b, << >>, << >>) : b \in BreakingLists}
    \cup {Doc(<< >>, i, a) : i \in ImageLists, a \in AttachmentLists}

Engines == {"docgen", "latex"}
\* password: None, the empty string, a real password
Passwords == {None, Some(<<>>), Some(<<"s", "3">>)}
WatermarkTexts == {<<>>, <<"I", "N", "T">>}
AssetDirs == {None, Some("assets"), Some("nodir")}
\* the defaults of JobOrchestrator.__init__
DefaultWatermark == <<"I", "N", "T">>

(***************************************************************************)
(* models/release.py: ReleaseModel built from raw_data.  Violations is the  *)
(* set of field constraints pydantic reports for the dict.                 *)
(***************************************************************************)
\* StrViolations without the min_length test
StrViolationsNoMin(d, key, minLen, maxLen) ==
    IF key \notin DOMAIN d THEN {<<key, "missing">>}
    ELSE IF Len(d[key]) > maxLen THEN {<<key, "string_too_long">>}
    ELSE {}
\* a required str field with Field(min_length, max_length)
StrViolations(d, key, minLen, maxLen) ==
    IF key \notin DOMAIN d THEN {<<key, "missing">>}
    ELSE IF Len(d[key]) < minLen THEN {<<key, "string_too_short">>}
    ELSE IF Len(d[key]) > maxLen THEN {<<key, "string_too_long">>}
    ELSE {}

Violations(raw) ==
    StrViolations(raw, "product_name", 1, PRODUCT_NAME_MAX)
    \cup StrViolations(raw, "version", 1, VERSION_MAX)
    \cup {<<"breaking_changes.migration", "string_too_short">> :
            i \in {j \in DOMAIN raw.breaking_changes :
                     Len(raw.breaking_changes[j].migration) < 1}}
    \cup {<<"images.path", "string_too_short">> :
            i \in {j \in DOMAIN raw.images : raw.images[j].path = ""}}

\* the validated model: defaults filled in, asset entries unresolved
ReleaseModel(raw) ==
    [product_name |-> raw.product_name,
     version |-> raw.version,
     breaking_changes |-> raw.breaking_changes,
     images |-> [i \in DOMAIN raw.images |->
                   [path |-> raw.images[i].path,
                    resolved_path |-> None, sha256 |-> None]],
     attachments |-> [i \in DOMAIN raw.attachments |->
                   [label |-> raw.attachments[i].label,
                    path |-> raw.attachments[i].path,
                    resolved_path |-> None, sha256 |-> None]]]

\* hashlib.sha256(x).hexdigest(): collision-free, and not the bytes themselves
Sha256(x) == [sha256_of |-> x]

\* The keys a raw_data dict can hold, in the order str comparison gives them
AllKeys ==
    <<"attachments", "breaking_changes", "build", "images", "product_name", "version">>
KeyRank(k) == CHOOSE i \in DOMAIN AllKeys : AllKeys[i] = k
\* two orders in which a dict can have received its keys
KeysAscending(d) == SelectSeq(AllKeys, LAMBDA k : k \in DOMAIN d)
KeysDescending(d) ==
    LET asc == KeysAscending(d)
    IN [i \in DOMAIN asc |-> asc[Len(asc) + 1 - i]]

\* the keys written in the order the dict holds them
KeysAsHeld(order) == order
\* sort_keys=True: the keys in ascending order
SortKeys(order) ==
    [i \in DOMAIN order |->
        CHOOSE k \in {order[n] : n \in DOMAIN order} :
            Cardinality({m \in DOMAIN order : KeyRank(order[m]) < KeyRank(k)}) = i - 1]
\* json.dumps finds an encoding for every value of the dict
JsonEncodable(d) == ~("build" \in DOMAIN d /\ d.build = NotJson)
\* json.dumps(d, sort_keys=True): the items of the dict, key by key
JsonDumps(d, order) ==
    LET ks == SortKeys(order) IN [i \in DOMAIN ks |-> <<ks[i], d[ks[i]]>>]
\* the input_hash of run()
InputHash(d, order) == Sha256(JsonDumps(d, order))

(***************************************************************************)
(* pipeline/resolve_assets.py.  The file system under the asset directory  *)
(* is a fixed table: what each path string is on disk.                     *)
(***************************************************************************)
ALLOWED_EXTENSIONS == {".jpg", ".jpeg", ".png", ".gif", ".pdf", ".txt"}

\* ".." in rel_path
HasDotDot(path) == path \in {"../../etc/passwd"}
\* (base_dir / rel_path).resolve() lies under base_dir.resolve()
UnderBase(path) == path \notin {"../../etc/passwd", "/etc/passwd"}
\* resolved.exists(); base_dir / "" is the base directory itself
FileExists(path) == path \in {"logo.png", "tool.exe", "huge.png", "notes.txt", ""}
\* resolved.suffix.lower()
Suffix(path) ==
    CASE path \in {"logo.png", "missing.png", "huge.png"} -> ".png"
      [] path = "tool.exe" -> ".exe"
      [] path = "notes.txt" -> ".txt"
      [] OTHER -> ""
\* resolved.stat().st_size, MiB
FileSize(path) == IF path = "huge.png" THEN 11 ELSE 1
\* base.is_dir()
\* a file system on which every directory is there
IsDirAlways(dir) == TRUE
IsDir(dir) == dir = "assets"

\* _validate_path: None when the path is accepted, else the exception
ValidatePath(path) ==
    IF HasDotDot(path) THEN Some(Exc("AssetPathTraversalError", << >>))
    ELSE IF ~UnderBase(path) THEN Some(Exc("AssetPathTraversalError", << >>))
    ELSE IF ~FileExists(path) THEN Some(Exc("AssetNotFoundError", << >>))
    ELSE IF Suffix(path) \notin ALLOWED_EXTENSIONS
         THEN Some(Exc("AssetTypeBlockedError", << >>))
    ELSE IF FileSize(path) > MAX_FILE_SIZE
         THEN Some(Exc("AssetTooLargeError", << >>))
    ELSE None

\* the two for-loops of resolve_assets over one list: entries are resolved
\* in place, in order, until the first one that _validate_path rejects
RECURSIVE ResolveList(_, _)
ResolveList(assets, i) ==
    IF i > Len(assets) THEN [assets |-> assets, err |-> None, size |-> 0]
    ELSE LET bad == ValidatePath(assets[i].path)
         IN IF IsSome(bad) THEN [assets |-> assets, err |-> bad, size |-> 0]
            ELSE LET done == [assets EXCEPT
                                ![i].resolved_path = Some(assets[i].path),
                                ![i].sha256 = Some(Sha256(assets[i].path))]
                     rest == ResolveList(done, i + 1)
                 IN [rest EXCEPT !.size = @ + FileSize(assets[i].path)]

\* resolve_assets(model, asset_dir): the model as it is left, the warnings
\* returned and the exception raised (None when it returns)
ResolveAssets(model, asset_dir) ==
    IF model.images = << >> /\ model.attachments = << >>
    THEN [model |-> model, warnings |-> << >>, err |-> None]
    ELSE IF IsNone(asset_dir)
    THEN [model |-> model, warnings |-> << "no asset directory" >>, err |-> None]
    ELSE IF ~IsDir(Get(asset_dir))
    THEN [model |-> model, warnings |-> << "asset directory does not exist" >>,
          err |-> None]
    ELSE IF Len(model.images) + Len(model.attachments) > MAX_ASSET_COUNT
    THEN [model |-> model, warnings |-> << >>,
          err |-> Some(Exc("AssetTooLargeError", << >>))]
    ELSE LET im == ResolveList(model.images, 1)
             m1 == [model EXCEPT !.images = im.assets]
         IN IF IsSome(im.err)
            THEN [model |-> m1, warnings |-> << >>, err |-> im.err]
            ELSE LET at == ResolveList(model.attachments, 1)
                     m2 == [m1 EXCEPT !.attachments = at.assets]
                 IN IF IsSome(at.err)
                    THEN [model |-> m2, warnings |-> << >>, err |-> at.err]
                    ELSE IF im.size + at.size > MAX_TOTAL_SIZE
                    THEN [model |-> m2, warnings |-> << >>,
                          err |-> Some(Exc("AssetTooLargeError", << >>))]
                    ELSE [model |-> m2, warnings |-> << >>, err |-> None]

(***************************************************************************)
(* PDF bytes.  An artifact is what a bytes value is to len(), to sha256    *)
(* and to pymupdf: its length, whether fitz.open accepts it, its           *)
(* encryption flag and, per page, the extracted text and the number of     *)
(* annotation objects.  id names the byte string.                          *)
(***************************************************************************)
Pdf(id, len, parses, encrypted, pages) ==
    [id |-> id, len |-> len, parses |-> parses, encrypted |-> encrypted,
     pages |-> pages]
Page(text, annots) == [text |-> text, annots |-> annots]

\* b"" : PipelineContext.__init__
EmptyBytes == Pdf("empty", 0, FALSE, FALSE, << >>)

BodyText == <<"H", "i">>
StampedText == <<"H", "i", " ", "I", "n", "t">>

BasePdf == Pdf("base", 3, TRUE, FALSE, << Page(BodyText, 1) >>)
BasePlainPdf == Pdf("base-plain", 3, TRUE, FALSE, << Page(BodyText, 0) >>)
FinalPdf == Pdf("final", 5, TRUE, FALSE, << Page(StampedText, 0) >>)
FinalEncryptedPdf == Pdf("final-enc", 6, TRUE, TRUE, << Page(StampedText, 0) >>)
CorruptPdf == Pdf("corrupt", 1, FALSE, FALSE, << >>)
\* a document fitz opens and finds no page in
ZeroPagePdf == Pdf("zero-page", 2, TRUE, FALSE, << >>)

\* two pages, the stamp on the first only
TwoPagePdf == Pdf("two-page", 7, TRUE, FALSE,
                  << Page(StampedText, 0), Page(BodyText, 0) >>)
\* one page of white space
BlankPdf == Pdf("blank", 2, TRUE, FALSE, << Page(<<" ">>, 0) >>)
\* the stamped page with two annotations left on it
AnnotatedPdf == Pdf("final-annot", 5, TRUE, FALSE, << Page(StampedText, 2) >>)

\* what the generation collaborator may answer with
GeneratedArtifacts == {BasePdf, BasePlainPdf}
\* what the download of the final handle may answer with
DownloadedArtifacts == {FinalPdf, FinalEncryptedPdf, CorruptPdf, ZeroPagePdf, BasePdf}

(***************************************************************************)
(* str helpers                                                             *)
(***************************************************************************)
UpperChar(c) ==
    CASE c = "a" -> "A" [] c = "c" -> "C" [] c = "e" -> "E" [] c = "i" -> "I"
      [] c = "m" -> "M" [] c = "n" -> "N" [] c = "p" -> "P" [] c = "t" -> "T"
      [] c = "y" -> "Y" [] c = "s" -> "S" [] c = "d" -> "D"
      [] OTHER -> c
\* a str left in the case it has
UpperNot(str) == str
\* str.upper()
Upper(str) == [i \in DOMAIN str |-> UpperChar(str[i])]
\* sub in str
Contains(sub, str) ==
    \E k \in 0 .. (Len(str) - Len(sub)) :
        \A i \in 1 .. Len(sub) : str[k + i] = sub[i]
\* str.strip() is non-empty
StripNonEmpty(str) == \E i \in DOMAIN str : str[i] # " "
\* bool(x) of a str | None
Truthy(opt) == IsSome(opt) /\ Get(opt) # << >>

(***************************************************************************)
(* pdf/verify.py                                                           *)
(***************************************************************************)
VerifyExpectations(watermark_text, should_be_encrypted, expected_pages) ==
    [watermark_text |-> watermark_text,
     should_be_encrypted |-> should_be_encrypted,
     expected_pages |-> expected_pages]

\* every check counted as passed
CountAll(checks) == Cardinality(DOMAIN checks)
\* number of TRUE values of a dict of checks: sum(checks.values())
CountTrue(checks) == Cardinality({k \in DOMAIN checks : checks[k]})

AnnotCount(pdf) ==
    LET RECURSIVE Sum(_)
        Sum(i) == IF i > Len(pdf.pages) THEN 0 ELSE pdf.pages[i].annots + Sum(i + 1)
    IN Sum(1)

\* an encryption check that accepts an artifact stricter than expected
EncryptionAtLeast(is_encrypted, should_be_encrypted) ==
    should_be_encrypted => is_encrypted
\* "doc.is_encrypted == expectations.should_be_encrypted"
EncryptionMatches(is_encrypted, should_be_encrypted) ==
    is_encrypted = should_be_encrypted

\* the checks dict of PDFVerifier.verify for a document fitz has opened
VerifyChecks(pdf, exp) ==
    LET wm == Upper(exp.watermark_text)
        has(i) == Contains(wm, Upper(pdf.pages[i].text))
    IN [opens_and_parses |-> Len(pdf.pages) > 0,
        page_count_stable |->
            IF IsSome(exp.expected_pages)
            THEN Len(pdf.pages) = Get(exp.expected_pages) ELSE TRUE,
        has_text_content |->
            \E i \in DOMAIN pdf.pages : StripNonEmpty(pdf.pages[i].text),
        watermark_detected |->
            IF exp.watermark_text # << >>
            THEN \E i \in DOMAIN pdf.pages : has(i) ELSE TRUE,
        watermark_all_pages |->
            IF exp.watermark_text # << >>
            THEN \A i \in DOMAIN pdf.pages : has(i) ELSE TRUE,
        encryption_matches |-> EncryptionMatches(pdf.encrypted, exp.should_be_encrypted),
        no_annotations |-> \A i \in DOMAIN pdf.pages : pdf.pages[i].annots = 0]

\* the VerificationResult built from the checks of an opened document
Report(pdf, exp) ==
    LET checks == VerifyChecks(pdf, exp)
    IN [page_count |-> Len(pdf.pages),
        has_text |-> checks.has_text_content,
        watermark_detected |-> checks.watermark_detected,
        watermark_on_all_pages |-> checks.watermark_all_pages,
        is_encrypted |-> pdf.encrypted,
        flattening_signals |-> checks.no_annotations,
        file_size |-> pdf.len,
        content_hash |-> Sha256(pdf.id),
        checks_passed |-> CountTrue(checks),
        checks_total |-> Cardinality(DOMAIN checks),
        passed |-> CountTrue(checks) = Cardinality(DOMAIN checks)]

\* the VerificationResult returned when "import fitz" fails
VacuousReport(pdf) ==
    [page_count |-> 0, has_text |-> FALSE, watermark_detected |-> FALSE,
     watermark_on_all_pages |-> FALSE, is_encrypted |-> FALSE,
     flattening_signals |-> FALSE, file_size |-> pdf.len,
     content_hash |-> Sha256(pdf.id), checks_passed |-> 0, checks_total |-> 0,
     passed |-> TRUE]

\* Verify that lets the ImportError of "import fitz" out
VerifyNoFallback(pdf, exp, fitzOk) ==
    IF ~fitzOk
    THEN [err |-> Some(Exc("ImportError", << >>)), result |-> None]
    ELSE IF ~pdf.parses
    THEN [err |-> Some(Exc("FileDataError", << >>)), result |-> None]
    ELSE [err |-> None, result |-> Some(Report(pdf, exp))]
\* PDFVerifier.verify: [err, result]; err is the exception fitz.open raised
Verify(pdf, exp, fitzOk) ==
    IF ~fitzOk
    THEN [err |-> None, result |-> Some(VacuousReport(pdf))]
    ELSE IF ~pdf.parses
    THEN [err |-> Some(Exc("FileDataError", << >>)), result |-> None]
    ELSE [err |-> None, result |-> Some(Report(pdf, exp))]

\* flattened as soon as no annotation is left
FlattenedLoose(before_annots, after_annots) == after_annots = 0
\* "before_annots > 0 and after_annots == 0"
Flattened(before_annots, after_annots) == before_annots > 0 /\ after_annots = 0

\* the size of the change, without its sign
SizeChangeUnsigned(before, after) ==
    IF after.len >= before.len THEN after.len - before.len ELSE before.len - after.len
\* "len(after_bytes) - len(before_bytes)"
SizeChange(before, after) == after.len - before.len

\* PDFVerifier.compute_diff: [err, result]
ComputeDiff(before, after, watermark_text, password_applied, fitzOk) ==
    IF ~fitzOk
    THEN [err |-> None,
          result |-> Some([watermark_applied |-> FALSE, flattened |-> FALSE,
                           password_protected |-> FALSE,
                           size_change_bytes |-> SizeChange(before, after)])]
    ELSE IF ~before.parses \/ ~after.parses
    THEN [err |-> Some(Exc("FileDataError", << >>)), result |-> None]
    ELSE [err |-> None,
          result |-> Some([watermark_applied |->
                               /\ watermark_text # << >>
                               /\ \E i \in DOMAIN after.pages :
                                    Contains(Upper(watermark_text),
                                             Upper(after.pages[i].text)),
                           flattened |-> Flattened(AnnotCount(before), AnnotCount(after)),
                           password_protected |-> password_applied,
                           size_change_bytes |-> SizeChange(before, after)])]

(***************************************************************************)
(* foxit/pipeline.py: the filename of a delivered job                      *)
(***************************************************************************)
\* a str left in the case it has
LowerCharNot(c) == c
\* str.lower(), character by character
LowerChar(c) ==
    CASE c = "A" -> "a" [] c = "M" -> "m" [] c = "I" -> "i" [] c = "H" -> "h"
      [] c = "N" -> "n" [] c = "T" -> "t"
      [] OTHER -> c
\* the characters of the class [a-z0-9\-_] that occur in the inputs
SafeChars ==
    {"a", "c", "e", "h", "i", "m", "n", "p", "t", "y", "0", "1", "-", "_"}
\* re.sub(r"[^a-z0-9\-_]", "", product.lower().replace(" ", "-"))
SafeProduct(product) ==
    LET lowered == [i \in DOMAIN product |-> LowerChar(product[i])]
        hyphened == [i \in DOMAIN lowered |->
                       IF lowered[i] = " " THEN "-" ELSE lowered[i]]
    IN SelectSeq(hyphened, LAMBDA c : c \in SafeChars)
Filename(product, version) ==
    SafeProduct(product) \o <<"-", "v">> \o version
        \o <<"-", "r", "e", "l", "e", "a", "s", "e", "-", "n", "o", "t", "e", "s",
             ".", "p", "d", "f">>

(***************************************************************************)
(* State                                                                   *)
(***************************************************************************)
VARIABLES
    job,          \* the constructor's arguments: raw_data, engine,
                  \* watermark_text, password, asset_dir, verify
    fitz,         \* whether "import fitz" succeeds in this runtime
    state,        \* JobOrchestrator.state
    timings,      \* JobOrchestrator.timings, the StepTiming list
    ctx,          \* JobOrchestrator.ctx, the PipelineContext
    pc,           \* where run() stands
    runs,         \* how many times run() was invoked
    pp,           \* locals of _step_post_process and of the client call in
                  \* flight: doc_id, op, attempt, elapsed, last_err, and
                  \* polls, the number of GETs _poll_task has issued
    verification, \* local of run()
    diff,         \* local of run()
    expectations, \* the VerifyExpectations handed to the verifier
    raised,       \* the exception run() raised to its caller
    result,       \* the JobResult run() returned
    phaseError,   \* the exception a phase raised: [phase, exc]
    calls,        \* the collaborator calls made, in order
    net,          \* the collaborator requests that are outstanding
    other,        \* a second job of the same process, while it is not the
                  \* one running: None, or its JobOrchestrator and run() frame
    stub,         \* None: collaborators that may answer anything; or the
                  \* deterministic stub standing in for them
    settings      \* core/config.py: poll_interval and poll_timeout

vars ==
    <<job, fitz, state, timings, ctx, pc, runs, pp, verification, diff,
      expectations, raised, result, phaseError, calls, net, other, stub,
      settings>>

\* PipelineContext.__init__
PipelineContext ==
    [release |-> None, base_pdf |-> EmptyBytes, base_pdf_doc_id |-> None,
     final_pdf |-> EmptyBytes, final_pdf_doc_id |-> None, warnings |-> << >>]

\* FOXIT_POLL_INTERVAL and FOXIT_POLL_TIMEOUT as configured
Settings == [poll_interval |-> PollInterval, poll_timeout |-> PollTimeout]
\* the polls counted: polls stops counting at PollCap, which no run with a
\* positive interval reaches
PollCap == PollTimeout + 1

NoCall == [doc_id |-> None, op |-> "", attempt |-> 0, elapsed |-> 0,
           last_err |-> None, polls |-> 0]

\* The constructor's arguments: every raw input with the default options
\* and every asset directory; the minimal document and every rejected
\* input with every combination of options.
JobArgs ==
    {j \in [raw_data : RawInputs, engine : Engines,
            watermark_text : WatermarkTexts, password : Passwords,
            asset_dir : AssetDirs, verify : BOOLEAN] :
        \/ /\ j.engine = "docgen" /\ j.watermark_text = DefaultWatermark
           /\ j.password = None /\ j.verify
        \/ j.raw_data = MinimalDoc /\ j.asset_dir = None
        \/ Violations(j.raw_data) # {}}

\* The jobs run.  key_order is the order in which the raw_data dict holds
\* its keys: ascending for every job, and descending as well for the jobs
\* of the minimal document with the default engine.
Jobs ==
    {WithKey(j, "key_order", KeysAscending(j.raw_data)) : j \in JobArgs}
    \cup {WithKey(j, "key_order", KeysDescending(j.raw_data)) :
            j \in {a \in JobArgs : a.raw_data = MinimalDoc /\ a.engine = "docgen"}}

\* JobOrchestrator.__init__
Init ==
    /\ job \in Jobs
    /\ fitz \in BOOLEAN
    /\ state = "RECEIVED"
    /\ timings = << >>
    /\ ctx = PipelineContext
    /\ pc = "init"
    /\ runs = 0
    /\ pp = NoCall
    /\ verification = None
    /\ diff = None
    /\ expectations = None
    /\ raised = None
    /\ result = None
    /\ phaseError = None
    /\ calls = << >>
    /\ net = << >>
    /\ other = None
    /\ stub = None
    /\ settings = Settings

\* _record_step
StepTiming(step, status, detail) == [step |-> step, status |-> status, detail |-> detail]
\* a step record that takes the place of the list
RecordStepAlone(step, status, detail) == << StepTiming(step, status, detail) >>
RecordStep(step, status, detail) == Append(timings, StepTiming(step, status, detail))

\* RunExcept without "self.state = JobState.FAILED"
RunExceptNoFail(phase, exc) ==
    /\ state' = state
    /\ raised' = Some(exc)
    /\ pc' = "raised"
    /\ phaseError' = Some([phase |-> phase, exc |-> exc])
\* RunExcept that swallows the exception and leaves run() where the call
\* was made, so that the call is made again
RunExceptRetry(phase, exc) == UNCHANGED <<state, raised, pc, phaseError>>
\* the except clauses of run(): the state becomes FAILED and the exception
\* is re-raised
RunExcept(phase, exc) ==
    /\ state' = "FAILED"
    /\ raised' = Some(exc)
    /\ pc' = "raised"
    /\ phaseError' = Some([phase |-> phase, exc |-> exc])

\* run() is called on a freshly constructed orchestrator
Run ==
    /\ pc = "init"
    /\ pc' = "validate"
    /\ runs' = runs + 1
    /\ UNCHANGED <<settings, stub, other, job, fitz, state, timings, ctx, pp, verification, diff,
                   expectations, raised, result, phaseError, calls, net>>

\* _step_validate
StepValidate ==
    /\ pc = "validate"
    /\ IF Violations(job.raw_data) = {}
       THEN /\ ctx' = [ctx EXCEPT !.release = Some(ReleaseModel(job.raw_data))]
            /\ state' = "VALIDATED"
            /\ timings' = RecordStep("validate", "ok", {})
            /\ pc' = "resolve_assets"
            /\ UNCHANGED <<raised, phaseError>>
       ELSE /\ timings' = RecordStep("validate", "failed", Violations(job.raw_data))
            /\ RunExcept("validate",
                         Exc("ValidationError", << Violations(job.raw_data) >>))
            /\ UNCHANGED ctx
    /\ UNCHANGED <<settings, stub, other, job, fitz, runs, pp, verification, diff, expectations,
                   result, calls, net>>

\* NoAssets that looks at the images only
NoAssetsImagesOnly(release) == release.images = << >>
\* "not self.ctx.release.images and not self.ctx.release.attachments"
NoAssets(release) == release.images = << >> /\ release.attachments = << >>

\* _step_resolve_assets
StepResolveAssets ==
    /\ pc = "resolve_assets"
    /\ LET release == Get(ctx.release)
       IN IF NoAssets(release)
          THEN /\ timings' = RecordStep("resolve_assets", "skipped", {<<"no assets", "">>})
               /\ state' = "ASSET_RESOLVED"
               /\ pc' = "generate"
               /\ UNCHANGED <<ctx, raised, phaseError>>
          ELSE LET r == ResolveAssets(release, job.asset_dir)
               IN IF IsNone(r.err)
                  THEN /\ ctx' = [ctx EXCEPT !.release = Some(r.model),
                                             !.warnings = @ \o r.warnings]
                       /\ state' = "ASSET_RESOLVED"
                       /\ timings' = RecordStep("resolve_assets", "ok", {})
                       /\ pc' = "generate"
                       /\ UNCHANGED <<raised, phaseError>>
                  ELSE /\ ctx' = [ctx EXCEPT !.release = Some(r.model)]
                       /\ RunExcept("resolve_assets", Get(r.err))
                       /\ UNCHANGED timings
    /\ UNCHANGED <<settings, stub, other, job, fitz, runs, pp, verification, diff, expectations,
                   result, calls, net>>

(***************************************************************************)
(* Collaborator answers.  Every remote call is an await: the request is    *)
(* issued (Send), run() is suspended, and the step that follows handles    *)
(* the answer.  net holds the requests that are outstanding, each with the *)
(* answer the collaborator will give; an outcome is either the name of the *)
(* exception the request raises or the kind of the successful response.    *)
(***************************************************************************)
\* foxit/docgen.py generate_pdf_from_template: raise_for_status, the
\* transport, and the RuntimeError for a response without base64FileString
DocgenFailures == {"HTTPStatusError", "TransportError", "RuntimeError"}
\* the LaTeX engine's errors of errors.py
LatexFailures == {"LatexCompileError", "LatexTimeoutError"}
\* httpx: resp.raise_for_status() and the transport of one request
HttpFailures == {"HTTPStatusError", "TransportError"}

\* the documentId a response carries for a method, or none at all
HandleOf(method) ==
    CASE method = "upload_pdf" -> "doc-upload"
      [] method = "add_watermark" -> "doc-watermark"
      [] method = "flatten_pdf" -> "doc-flatten"
      [] method = "protect_pdf" -> "doc-protect"
Handles(method) == {Some(HandleOf(method)), None}

Call(method, handle) == [ev |-> "call", method |-> method, handle |-> handle]
Return(method, handle) == [ev |-> "return", method |-> method, handle |-> handle]

\* a response: its outcome, the document id and the bytes it carries, and
\* its HTTP status (0 where the request got no HTTP response)
Resp(outcome, handle, bytes) ==
    [outcome |-> outcome, handle |-> handle, bytes |-> bytes, status |-> 200]
\* a failed request: raise_for_status on a server error, or no response
Failed(f) ==
    [Resp(f, None, EmptyBytes) EXCEPT
        !.status = IF f = "HTTPStatusError" THEN 500 ELSE 0]
\* raise_for_status on a client-error status
Rejected(status) == [Failed("HTTPStatusError") EXCEPT !.status = status]

\* what the collaborator may answer to a request made at pc = req
Responses(req) ==
    CASE req = "generate" ->
           {Resp("bytes", None, b) : b \in GeneratedArtifacts}
           \cup {Failed(f) : f \in IF job.engine = "latex"
                                   THEN LatexFailures ELSE DocgenFailures}
      [] req = "upload" ->
           {Resp("document", h, EmptyBytes) : h \in Handles("upload_pdf")}
           \cup {Failed(f) : f \in HttpFailures}
      [] req = "submit" ->
           {Resp("task", None, EmptyBytes)}
           \cup {Resp("result", h, EmptyBytes) : h \in Handles(pp.op)}
           \cup {Failed(f) : f \in HttpFailures}
           \cup {Rejected(400)}
      [] req = "poll" ->
           {Resp("COMPLETED", h, EmptyBytes) : h \in Handles(pp.op)}
           \cup {Resp("FAILED", None, EmptyBytes), Resp("PENDING", None, EmptyBytes)}
           \cup {Failed(f) : f \in HttpFailures}
      [] req = "download" ->
           {Resp("bytes", None, b) : b \in DownloadedArtifacts}
           \cup {Failed(f) : f \in HttpFailures}

\* A deterministic stub of the collaborators: what generation and download
\* return, how many first attempts of every submission fail, whether a
\* submission is answered with a task, and how many polls of a task find
\* it pending.
Stubs ==
    [generate : {Resp("bytes", None, BasePdf), Failed("RuntimeError")},
     submit_failures : 0 .. 2,
     tasks : BOOLEAN,
     pending : 0 .. 2,
     download : {Resp("bytes", None, FinalPdf), Resp("bytes", None, CorruptPdf),
                 Failed("HTTPStatusError")}]
\* the stub's answer to the request made at pc = req
StubAnswer(sc, req) ==
    CASE req = "generate" -> sc.generate
      [] req = "upload" -> Resp("document", Some(HandleOf("upload_pdf")), EmptyBytes)
      [] req = "submit" ->
           IF pp.attempt <= sc.submit_failures THEN Failed("TransportError")
           ELSE IF sc.tasks THEN Resp("task", None, EmptyBytes)
           ELSE Resp("result", Some(HandleOf(pp.op)), EmptyBytes)
      [] req = "poll" ->
           IF pp.polls < sc.pending THEN Resp("PENDING", None, EmptyBytes)
           ELSE Resp("COMPLETED", Some(HandleOf(pp.op)), EmptyBytes)
      [] req = "download" -> sc.download

RequestPoints == {"generate", "upload", "submit", "poll", "download"}

\* run() that does not wait for the answer of the request it issued
SuspendedNever == FALSE
\* "await": run() is suspended while a request of its own is outstanding
Suspended == net # << >>

\* the answer to the request made at pc = req has arrived
Arrived(req) == net # << >> /\ Head(net).req = req
Answer == Head(net).resp

\* the request of the current await is issued: the generation call of
\* _step_generate, client.upload_pdf, one attempt of _submit_operation, one
\* GET of _poll_task, client.download_pdf
Send ==
    /\ pc \in RequestPoints
    /\ ~Suspended
    /\ \E r \in Responses(pc) :
          /\ IsSome(stub) => r = StubAnswer(Get(stub), pc)
          /\ net' = Append(net, [req |-> pc, resp |-> r])
    /\ calls' = CASE pc = "generate" -> Append(calls, Call("generate", None))
                  [] pc = "upload" -> Append(calls, Call("upload_pdf", None))
                  [] pc = "submit" ->
                       IF pp.attempt = 1
                       THEN Append(calls, Call(pp.op, pp.doc_id)) ELSE calls
                  [] pc = "poll" -> calls
                  [] pc = "download" -> Append(calls, Call("download_pdf", pp.doc_id))
    /\ pp' = IF pc = "poll" /\ pp.polls < PollCap
             THEN [pp EXCEPT !.polls = @ + 1] ELSE pp
    /\ UNCHANGED <<settings, stub, other, job, fitz, state, timings, ctx, pc, runs, verification,
                   diff, expectations, raised, result, phaseError>>

\* _step_generate, from the answer of the engine
StepGenerate ==
    /\ pc = "generate"
    /\ Arrived("generate")
    /\ net' = Tail(net)
    /\ IF Answer.outcome = "bytes"
       THEN /\ ctx' = [ctx EXCEPT !.base_pdf = Answer.bytes]
            /\ state' = "BASE_PDF_GENERATED"
            /\ timings' = RecordStep("generate", "ok", {})
            /\ pc' = "upload"
            /\ UNCHANGED <<raised, phaseError>>
       ELSE /\ RunExcept("generate", Exc(Answer.outcome, << >>))
            /\ UNCHANGED <<ctx, timings>>
    /\ UNCHANGED <<settings, stub, other, job, fitz, runs, pp, verification, diff, expectations,
                   result, calls>>

\* client.upload_pdf and the assignment of base_pdf_doc_id
Upload ==
    /\ pc = "upload"
    /\ Arrived("upload")
    /\ net' = Tail(net)
    /\ IF Answer.outcome = "document"
       THEN /\ calls' = Append(calls, Return("upload_pdf", Answer.handle))
            /\ ctx' = [ctx EXCEPT !.base_pdf_doc_id = Answer.handle]
            /\ pp' = [doc_id |-> Answer.handle, op |-> "add_watermark",
                      attempt |-> 1, elapsed |-> 0, last_err |-> None,
                      polls |-> 0]
            /\ pc' = "submit"
            /\ UNCHANGED <<state, raised, phaseError>>
       ELSE /\ RunExcept("post_process", Exc(Answer.outcome, << >>))
            /\ UNCHANGED <<ctx, pp, calls>>
    /\ UNCHANGED <<settings, stub, other, job, fitz, runs, timings, verification, diff, expectations,
                   result>>

\* NextOp with protect put before flatten
NextOpProtectFirst(op) ==
    CASE op = "add_watermark" ->
           IF Truthy(job.password) THEN "protect_pdf" ELSE "download_pdf"
      [] op = "flatten_pdf" -> "download_pdf"
      [] op = "protect_pdf" -> "flatten_pdf"
\* the transform after op in _step_post_process, "download_pdf" after the last
NextOp(op) ==
    CASE op = "add_watermark" -> "flatten_pdf"
      [] op = "flatten_pdf" ->
           IF Truthy(job.password) THEN "protect_pdf" ELSE "download_pdf"
      [] op = "protect_pdf" -> "download_pdf"

\* doc_id left at the handle the transform was given
DocIdKept(h) == pp.doc_id
\* "doc_id = await client.<transform>(doc_id)": doc_id is the handle returned
DocIdAfter(h) == h

\* a transform returned handle h: doc_id is rebound and the next call starts
OpReturns(h) ==
    /\ calls' = Append(calls, Return(pp.op, h))
    /\ pp' = [doc_id |-> DocIdAfter(h), op |-> NextOp(pp.op),
              attempt |-> IF NextOp(pp.op) = "download_pdf" THEN 0 ELSE 1,
              elapsed |-> 0, last_err |-> None, polls |-> 0]
    /\ pc' = IF NextOp(pp.op) = "download_pdf" THEN "download" ELSE "submit"
    /\ UNCHANGED <<state, raised, phaseError>>

\* PollOrTimeout without the bound of the while loop
PollForever(e) ==
    /\ pp' = [pp EXCEPT !.attempt = 0, !.elapsed = e, !.last_err = None]
    /\ pc' = "poll"
    /\ UNCHANGED <<state, raised, phaseError>>
\* _poll_task's loop test, evaluated with elapsed = e: another poll, or the
\* TimeoutError behind the loop
PollOrTimeout(e) ==
    IF e < settings.poll_timeout
    THEN /\ pp' = [pp EXCEPT !.attempt = 0, !.elapsed = e, !.last_err = None]
         /\ pc' = "poll"
         /\ UNCHANGED <<state, raised, phaseError>>
    ELSE /\ RunExcept("post_process", Exc("TimeoutError", << >>))
         /\ UNCHANGED pp

\* MayRetry that allows one attempt more
MayRetryOnceMore(attempt) == attempt <= MAX_RETRIES + 1
\* _submit_operation: "if attempt <= MAX_RETRIES" in a loop over
\* range(1, MAX_RETRIES + 2); after the last attempt last_err is raised
MayRetry(attempt) == attempt <= MAX_RETRIES

\* one attempt of _submit_operation, from its answer, and what
\* _run_operation does with a successful response
Submit ==
    /\ pc = "submit"
    /\ Arrived("submit")
    /\ net' = Tail(net)
    /\ CASE Answer.outcome = "task" ->
              \* the response carries a taskId: _poll_task starts
              /\ PollOrTimeout(0)
              /\ UNCHANGED calls
         [] Answer.outcome = "result" ->
              \* no taskId: the result documentId is read off the response
              OpReturns(Answer.handle)
         [] OTHER ->
              \* HTTPStatusError or TransportError: retry, or raise last_err
              /\ UNCHANGED calls
              /\ IF MayRetry(pp.attempt)
                 THEN /\ pp' = [pp EXCEPT !.attempt = @ + 1,
                                          !.last_err = Some(Exc(Answer.outcome, << >>))]
                      /\ UNCHANGED <<pc, state, raised, phaseError>>
                 ELSE /\ RunExcept("post_process", Exc(Answer.outcome, << >>))
                      /\ UNCHANGED pp
    /\ UNCHANGED <<settings, stub, other, job, fitz, runs, timings, ctx, verification, diff,
                   expectations, result>>

\* one iteration of _poll_task's loop, from the answer to its GET
Poll ==
    /\ pc = "poll"
    /\ Arrived("poll")
    /\ net' = Tail(net)
    /\ CASE Answer.outcome = "COMPLETED" -> OpReturns(Answer.handle)
         [] Answer.outcome = "FAILED" ->
              /\ RunExcept("post_process", Exc("RuntimeError", << >>))
              /\ UNCHANGED <<pp, calls>>
         [] Answer.outcome = "PENDING" ->
              \* any other status: sleep poll_interval and test the loop again
              /\ PollOrTimeout(pp.elapsed + settings.poll_interval)
              /\ UNCHANGED calls
         [] OTHER ->
              \* resp.raise_for_status() or the transport
              /\ RunExcept("post_process", Exc(Answer.outcome, << >>))
              /\ UNCHANGED <<pp, calls>>
    /\ UNCHANGED <<settings, stub, other, job, fitz, runs, timings, ctx, verification, diff,
                   expectations, result>>

\* AfterPostProcess without the call of _step_verify
AfterPostProcessSkip == "deliver"
\* AfterPostProcess without the test of self.verify
AfterPostProcessAlways == "verify"
\* run(): "if self.verify:" decides what follows _step_post_process
AfterPostProcess == IF job.verify THEN "verify" ELSE "deliver"

\* client.download_pdf, from its answer, and the rest of _step_post_process
Download ==
    /\ pc = "download"
    /\ Arrived("download")
    /\ net' = Tail(net)
    /\ IF Answer.outcome = "bytes"
       THEN /\ calls' = Append(calls, Return("download_pdf", pp.doc_id))
            /\ ctx' = [ctx EXCEPT !.final_pdf = Answer.bytes,
                                  !.final_pdf_doc_id = pp.doc_id]
            /\ state' = "POST_PROCESSED"
            /\ timings' = RecordStep("post_process", "ok", {})
            /\ pc' = AfterPostProcess
            /\ UNCHANGED <<raised, phaseError>>
       ELSE /\ RunExcept("post_process", Exc(Answer.outcome, << >>))
            /\ UNCHANGED <<ctx, timings, calls>>
    /\ pp' = NoCall
    /\ UNCHANGED <<settings, stub, other, job, fitz, runs, verification, diff, expectations, result>>

\* _step_verify
StepVerify ==
    /\ pc = "verify"
    /\ LET exp == VerifyExpectations(job.watermark_text, Truthy(job.password), None)
           v == Verify(ctx.final_pdf, exp, fitz)
           d == ComputeDiff(ctx.base_pdf, ctx.final_pdf, job.watermark_text,
                            Truthy(job.password), fitz)
       IN /\ expectations' = Some(exp)
          /\ IF IsSome(v.err)
             THEN /\ RunExcept("verify", Get(v.err))
                  /\ UNCHANGED <<timings, verification, diff>>
             ELSE IF IsSome(d.err)
             THEN /\ RunExcept("verify", Get(d.err))
                  /\ UNCHANGED <<timings, verification, diff>>
             ELSE /\ verification' = v.result
                  /\ diff' = d.result
                  /\ state' = "VERIFIED"
                  /\ timings' = RecordStep("verify", "ok", {})
                  /\ pc' = "deliver"
                  /\ UNCHANGED <<raised, phaseError>>
    /\ UNCHANGED <<settings, stub, other, job, fitz, runs, ctx, pp, result, calls, net>>

\* a page count taken without the try of run()
CountPagesUnguarded(pdf) == Len(pdf.pages)
\* the page count of run(): 0 unless fitz is there and opens the bytes
CountPages(pdf) == IF fitz /\ pdf.parses THEN Len(pdf.pages) ELSE 0

\* the JobResult run() assembles
JobResult ==
    [engine_used |-> job.engine,
     input_hash |-> InputHash(job.raw_data, job.key_order),
     artifact |-> [filename |-> Filename(job.raw_data.product_name,
                                         job.raw_data.version),
                   size_bytes |-> ctx.final_pdf.len,
                   pages |-> CountPages(ctx.final_pdf),
                   content_hash |-> Sha256(ctx.final_pdf.id)],
     before_pdf_id |-> ctx.base_pdf_doc_id,
     after_pdf_id |-> ctx.final_pdf_doc_id,
     timings |-> timings,
     warnings |-> ctx.warnings,
     verification |-> verification,
     diff_summary |-> diff]

\* run() from "self.state = JobState.DELIVERED" to its return
Deliver ==
    /\ pc = "deliver"
    /\ state' = "DELIVERED"
    /\ IF JsonEncodable(job.raw_data)
       THEN /\ result' = Some(JobResult)
            /\ pc' = "returned"
            /\ UNCHANGED raised
       ELSE \* json.dumps raises TypeError, outside the try of run()
            /\ raised' = Some(Exc("TypeError", << >>))
            /\ pc' = "raised"
            /\ UNCHANGED result
    /\ UNCHANGED <<settings, stub, other, job, fitz, timings, ctx, runs, pp, verification, diff,
                   expectations, phaseError, calls, net>>

\* run() is called again on an orchestrator whose run() has returned or
\* raised: a new frame (verification = diff = None), the same object
Rerun ==
    /\ pc \in {"returned", "raised"}
    /\ runs < MaxRuns
    /\ pc' = "validate"
    /\ runs' = runs + 1
    /\ verification' = None
    /\ diff' = None
    /\ expectations' = None
    /\ raised' = None
    /\ result' = None
    /\ phaseError' = None
    /\ pp' = NoCall
    /\ UNCHANGED <<settings, stub, other, job, fitz, state, timings, ctx, calls, net>>

Next ==
    \/ Run
    \/ Send
    \/ StepValidate
    \/ StepResolveAssets
    \/ StepGenerate
    \/ Upload
    \/ Submit
    \/ Poll
    \/ Download
    \/ StepVerify
    \/ Deliver

\* one run() per orchestrator object, as main.py and run_pipeline use it
Spec == Init /\ [][Next]_vars

(***************************************************************************)
(* Two jobs in one process (main.py: one JobOrchestrator per request, on   *)
(* one event loop).  The variables above are those of the job that is      *)
(* running; other holds the job that is not.                               *)
(***************************************************************************)
\* the job that is running and the one that is not
Cur == IF Get(other).id = "B" THEN "A" ELSE "B"

\* the JobOrchestrator of the running job and the frame of its run()
Own ==
    [id |-> Cur, job |-> job, state |-> state, timings |-> timings, ctx |-> ctx,
     pc |-> pc, runs |-> runs, pp |-> pp, verification |-> verification,
     diff |-> diff, expectations |-> expectations, raised |-> raised,
     result |-> result, phaseError |-> phaseError, calls |-> calls, net |-> net]

\* JobOrchestrator.__init__ for job j
FreshJob(id, j) ==
    [id |-> id, job |-> j, state |-> "RECEIVED", timings |-> << >>,
     ctx |-> PipelineContext, pc |-> "init", runs |-> 0, pp |-> NoCall,
     verification |-> None, diff |-> None, expectations |-> None,
     raised |-> None, result |-> None, phaseError |-> None, calls |-> << >>,
     net |-> << >>]

\* a warnings list that is one object for every PipelineContext
SharedWarnings(own, running) == running
\* PipelineContext.__init__ makes "self.warnings = []" anew for each
\* context: the list a job finds when it resumes is its own
OwnWarnings(own, running) == own

\* the event loop may run another job where run() does not hold it: at an
\* await with the request outstanding, before run() started, after it ended
Yields == Suspended \/ pc \in {"init", "returned", "raised"}

\* the event loop resumes the other job
Switch ==
    /\ IsSome(other)
    /\ Yields
    /\ other' = Some(Own)
    /\ job' = Get(other).job
    /\ state' = Get(other).state
    /\ timings' = Get(other).timings
    /\ ctx' = [Get(other).ctx EXCEPT
                 !.warnings = OwnWarnings(Get(other).ctx.warnings, ctx.warnings)]
    /\ pc' = Get(other).pc
    /\ runs' = Get(other).runs
    /\ pp' = Get(other).pp
    /\ verification' = Get(other).verification
    /\ diff' = Get(other).diff
    /\ expectations' = Get(other).expectations
    /\ raised' = Get(other).raised
    /\ result' = Get(other).result
    /\ phaseError' = Get(other).phaseError
    /\ calls' = Get(other).calls
    /\ net' = Get(other).net
    /\ UNCHANGED <<settings, stub, fitz>>

\* job A is the minimal document; job B is a document with an image and no
\* asset directory, or a document without product_name
PairJobsB ==
    {j \in Jobs :
        /\ j.raw_data \in {Doc(<< >>, << [path |-> "logo.png"] >>, << >>),
                           WithKey(Lists(<< >>, << >>, << >>), "version", V100)}
        /\ j.engine = "docgen" /\ j.watermark_text = DefaultWatermark
        /\ j.password = None /\ j.verify /\ j.asset_dir = None}

InitPair ==
    /\ job \in {j \in Jobs :
                  /\ j.raw_data = MinimalDoc /\ j.engine = "docgen"
                  /\ j.watermark_text = DefaultWatermark /\ j.password = None
                  /\ ~j.verify /\ j.asset_dir = None
                  /\ j.key_order = KeysAscending(j.raw_data)}
    /\ fitz = TRUE
    /\ state = "RECEIVED"
    /\ timings = << >>
    /\ ctx = PipelineContext
    /\ pc = "init"
    /\ runs = 0
    /\ pp = NoCall
    /\ verification = None
    /\ diff = None
    /\ expectations = None
    /\ raised = None
    /\ result = None
    /\ phaseError = None
    /\ calls = << >>
    /\ net = << >>
    /\ other \in {Some(FreshJob("B", j)) : j \in PairJobsB}
    /\ stub = None
    /\ settings = Settings

NextPair == Next \/ Switch

SpecPair == InitPair /\ [][NextPair]_vars

(***************************************************************************)
(* The same job twice, against a deterministic stub: two JobOrchestrator   *)
(* objects built from the same release document and the same options, the *)
(* second from a dict that holds its keys in the opposite order.           *)
(***************************************************************************)
TwinJobs ==
    {j \in Jobs : /\ j.raw_data = MinimalDoc /\ j.engine = "docgen"
                  /\ j.password # Some(<< >>) /\ j.asset_dir = None
                  /\ j.key_order = KeysAscending(j.raw_data)}

InitTwin ==
    /\ job \in TwinJobs
    /\ fitz \in BOOLEAN
    /\ state = "RECEIVED"
    /\ timings = << >>
    /\ ctx = PipelineContext
    /\ pc = "init"
    /\ runs = 0
    /\ pp = NoCall
    /\ verification = None
    /\ diff = None
    /\ expectations = None
    /\ raised = None
    /\ result = None
    /\ phaseError = None
    /\ calls = << >>
    /\ net = << >>
    /\ other = Some(FreshJob("B", [job EXCEPT
                                      !.key_order = KeysDescending(job.raw_data)]))
    /\ stub \in {Some(sc) : sc \in Stubs}
    /\ settings = Settings

SpecTwin == InitTwin /\ [][NextPair]_vars

(***************************************************************************)
(* run() to its end, for the jobs of the default engine and watermark.     *)
(* poll_interval is any value the configuration can hold from 0 up,        *)
(* config.py reading it with float() and no test; every step of run()      *)
(* that can be taken is taken in the end, and every request is answered.   *)
(***************************************************************************)
InitLive ==
    /\ job \in {j \in Jobs : /\ j.engine = "docgen" /\ j.asset_dir = None
                             /\ j.watermark_text = DefaultWatermark
                             /\ j.key_order = KeysAscending(j.raw_data)}
    /\ fitz \in BOOLEAN
    /\ state = "RECEIVED"
    /\ timings = << >>
    /\ ctx = PipelineContext
    /\ pc = "init"
    /\ runs = 0
    /\ pp = NoCall
    /\ verification = None
    /\ diff = None
    /\ expectations = None
    /\ raised = None
    /\ result = None
    /\ phaseError = None
    /\ calls = << >>
    /\ net = << >>
    /\ other = None
    /\ stub = None
    /\ settings \in [poll_interval : 0 .. PollInterval, poll_timeout : {PollTimeout}]

SpecLive == InitLive /\ [][Next]_vars /\ WF_vars(Next)

NextReuse == Next \/ Rerun

\* the orchestrator object is reused: run() may be called again.  The jobs
\* are those of the documents without assets, with the default options.
InitReuse ==
    /\ Init
    /\ job.raw_data \in KeyVariants(Lists(<< >>, << >>, << >>))
    /\ job.engine = "docgen" /\ job.watermark_text = DefaultWatermark
    /\ job.password = None /\ job.verify /\ job.asset_dir = None
    /\ job.key_order = KeysAscending(job.raw_data)

SpecReuse == InitReuse /\ [][NextReuse]_vars

(***************************************************************************)
(* PDFVerifier on its own, as tests/unit/test_verify.py calls it: verify   *)
(* on a byte string and expectations, then compute_diff on a pair of byte  *)
(* strings.  The after-bytes are ctx.final_pdf, the before-bytes           *)
(* ctx.base_pdf; the watermark text and the password flag of compute_diff  *)
(* are the job's.                                                          *)
(***************************************************************************)
InspectedArtifacts ==
    GeneratedArtifacts \union DownloadedArtifacts
        \union {TwoPagePdf, BlankPdf, AnnotatedPdf}

ExpectedWatermarks == {<< >>, <<"I", "N", "T">>, <<"i", "n", "t">>}
ExpectedPages == {None, Some(1), Some(2)}
Expectations ==
    {VerifyExpectations(w, e, n) :
        w \in ExpectedWatermarks, e \in BOOLEAN, n \in ExpectedPages}

InitVerifier ==
    /\ job \in {j \in Jobs : /\ j.raw_data = MinimalDoc /\ j.engine = "docgen"
                             /\ j.verify /\ j.password # Some(<< >>)
                             /\ j.key_order = KeysAscending(j.raw_data)}
    /\ fitz \in BOOLEAN
    /\ expectations \in {Some(e) : e \in Expectations}
    /\ ctx \in {[PipelineContext EXCEPT !.base_pdf = b, !.final_pdf = a] :
                   b \in InspectedArtifacts, a \in InspectedArtifacts}
    /\ pc = "verifier"
    /\ state = "RECEIVED"
    /\ timings = << >>
    /\ runs = 0
    /\ pp = NoCall
    /\ verification = None
    /\ diff = None
    /\ raised = None
    /\ result = None
    /\ phaseError = None
    /\ calls = << >>
    /\ net = << >>
    /\ other = None
    /\ stub = None
    /\ settings = Settings

\* verifier.verify(pdf_bytes, expectations): its report, or what it raised
VerifyCall ==
    /\ pc = "verifier"
    /\ LET v == Verify(ctx.final_pdf, Get(expectations), fitz)
       IN /\ verification' = v.result
          /\ raised' = v.err
    /\ pc' = "differ"
    /\ UNCHANGED <<settings, stub, other, job, fitz, state, timings, ctx, runs, pp, diff,
                   expectations, result, phaseError, calls, net>>

\* verifier.compute_diff(before, after, ...): its summary, or what it raised
DiffCall ==
    /\ pc = "differ"
    /\ LET d == ComputeDiff(ctx.base_pdf, ctx.final_pdf, job.watermark_text,
                            Truthy(job.password), fitz)
       IN /\ diff' = d.result
          /\ phaseError' = IF IsSome(d.err)
                           THEN Some([phase |-> "compute_diff", exc |-> Get(d.err)])
                           ELSE None
    /\ pc' = "compared"
    /\ UNCHANGED <<settings, stub, other, job, fitz, state, timings, ctx, runs, pp, verification,
                   expectations, raised, result, calls, net>>

NextVerifier == VerifyCall \/ DiffCall

SpecVerifier == InitVerifier /\ [][NextVerifier]_vars

(***************************************************************************)
(* Properties                                                              *)
(***************************************************************************)
Last(seq) == seq[Len(seq)]
Terminal == {"DELIVERED", "FAILED"}
\* the step whose completion enters a state
PhaseEntering(s) ==
    CASE s = "VALIDATED" -> "validate"
      [] s = "ASSET_RESOLVED" -> "resolve_assets"
      [] s = "BASE_PDF_GENERATED" -> "generate"
      [] s = "POST_PROCESSED" -> "post_process"
      [] s = "VERIFIED" -> "verify"
      [] OTHER -> ""
\* the phase's step has just completed without error
Completed(phase) ==
    /\ phaseError' = None
    /\ Len(timings') = Len(timings) + 1
    /\ Last(timings').step = phase
    /\ Last(timings').status \in {"ok", "skipped"}

C1_Step ==
    state' # state =>
        \/ /\ <<state, state'>> \in
                 {<<"RECEIVED", "VALIDATED">>, <<"VALIDATED", "ASSET_RESOLVED">>,
                  <<"ASSET_RESOLVED", "BASE_PDF_GENERATED">>,
                  <<"BASE_PDF_GENERATED", "POST_PROCESSED">>}
           /\ Completed(PhaseEntering(state'))
        \/ /\ state = "POST_PROCESSED" /\ state' = "VERIFIED"
           /\ job.verify /\ Completed("verify")
        \/ /\ state = "POST_PROCESSED" /\ state' = "DELIVERED" /\ ~job.verify
        \/ /\ state = "VERIFIED" /\ state' = "DELIVERED"
        \/ /\ state \notin Terminal /\ state' = "FAILED"

\* C1: an orchestrator starts in RECEIVED; during run() the state changes
\* only to its successor in RECEIVED, VALIDATED, ASSET_RESOLVED,
\* BASE_PDF_GENERATED, POST_PROCESSED, VERIFIED, DELIVERED, in the step that
\* completes the phase without error (VERIFIED is passed over exactly when
\* verify is off), or from a non-terminal state to FAILED; so no state is
\* skipped or entered twice.
C1_StateOrder == (state = "RECEIVED") /\ [][C1_Step]_vars

C1_Witness == state = "DELIVERED" /\ job.verify /\ Len(timings) = 5

C2_Step == state \in Terminal => (state' = state /\ timings' = timings)

\* C2: once the state is DELIVERED or FAILED, no later step, and no further
\* call of run() on the same object, changes the state or the step records.
C2_TerminalAbsorbing == [][C2_Step]_vars

C3_Step == IsSome(phaseError) => UNCHANGED <<calls, net, pp, timings, state, pc, ctx>>

\* C3: when a phase raises, the run stops there: the state is FAILED, the
\* same exception is what run() raises, no JobResult is returned, and from
\* then on no phase starts and no collaborator is called.
C3_NoContinuation ==
    /\ [](IsSome(phaseError) =>
            /\ pc = "raised"
            /\ state = "FAILED"
            /\ raised = Some(Get(phaseError).exc)
            /\ IsNone(result))
    /\ [][C3_Step]_vars

C3_Witness ==
    /\ IsSome(phaseError) /\ Get(phaseError).phase = "post_process"
    /\ state = "FAILED" /\ Len(calls) > 3

\* C4: a raw input that violates a ReleaseModel constraint leaves, once
\* validate has run, exactly the step record validate/failed with the
\* violations, a ValidationError with code VALIDATION_FAILED carrying the
\* violation list, the state FAILED, and no release document in the context.
C4_ValidationFailure ==
    (Violations(job.raw_data) # {} /\ pc \notin {"init", "validate"}) =>
        /\ timings = << StepTiming("validate", "failed", Violations(job.raw_data)) >>
        /\ phaseError = Some([phase |-> "validate", exc |-> Get(raised)])
        /\ Get(raised) = [type |-> "ValidationError", code |-> "VALIDATION_FAILED",
                          detail |-> << Violations(job.raw_data) >>]
        /\ state = "FAILED"
        /\ IsNone(ctx.release)
        /\ IsNone(result)

C4_Witness ==
    /\ pc = "raised"
    /\ Violations(job.raw_data) =
         {<<"breaking_changes.migration", "string_too_short">>}

NameOrVersionMissing(raw) ==
    \/ "product_name" \notin DOMAIN raw
    \/ "version" \notin DOMAIN raw
    \/ raw.product_name = << >>
    \/ raw.version = << >>

\* C5: a job whose raw input lacks product_name or version, or has one of
\* them empty, makes no call to the generation or the post-processing
\* collaborator, and its state is never BASE_PDF_GENERATED or later: it is
\* RECEIVED until validate has run and FAILED afterwards.
C5_NoCollaboratorCall ==
    NameOrVersionMissing(job.raw_data) =>
        /\ calls = << >>
        /\ pp = NoCall
        /\ pc \in {"init", "validate", "raised"}
        /\ state = IF pc = "raised" THEN "FAILED" ELSE "RECEIVED"

C5_Witness ==
    /\ pc = "raised"
    /\ "product_name" \in DOMAIN job.raw_data
    /\ job.raw_data.product_name = << >>
    /\ "version" \in DOMAIN job.raw_data
    /\ job.raw_data.version # << >>

\* C6: whenever a phase has failed, the last step record is that phase's,
\* with status failed.
C6_FailureRecorded ==
    IsSome(phaseError) =>
        /\ timings # << >>
        /\ Last(timings).step = Get(phaseError).phase
        /\ Last(timings).status = "failed"

\* C7: every exception run() raises to its caller is a DocForgeError, with
\* a code.
C7_StructuredErrors ==
    IsSome(raised) => IsDocForgeError(Get(raised)) /\ Get(raised).code # ""

\* the post-processing calls, without the handles
PostProcessLog ==
    LET pplog == SelectSeq(calls, LAMBDA c : c.method # "generate")
    IN [i \in DOMAIN pplog |-> <<pplog[i].ev, pplog[i].method>>]
CallReturn(method) == << <<"call", method>>, <<"return", method>> >>
\* upload, watermark, flatten, protect if a password was given, download,
\* each returning before the next is called
ExpectedLog ==
    CallReturn("upload_pdf") \o CallReturn("add_watermark")
        \o CallReturn("flatten_pdf")
        \o (IF Truthy(job.password) THEN CallReturn("protect_pdf") ELSE << >>)
        \o CallReturn("download_pdf")
IsPrefix(a, b) == Len(a) <= Len(b) /\ a = SubSeq(b, 1, Len(a))

\* C8: the post-processing calls are made in the order upload, watermark,
\* flatten, protect (only with a password), download, each one only after
\* the one before has returned; a job past post-processing has made them
\* all.
C8_TransformOrder ==
    /\ IsPrefix(PostProcessLog, ExpectedLog)
    /\ state \in {"POST_PROCESSED", "VERIFIED", "DELIVERED"} =>
           PostProcessLog = ExpectedLog

C8_Witness ==
    /\ state = "POST_PROCESSED" /\ Truthy(job.password)
    /\ Len(PostProcessLog) = 10

Called(method) == \E i \in DOMAIN calls : calls[i] .method = method

\* C9: "a non-empty password was supplied" decides alike whether protect is
\* submitted, whether the verifier expects encryption, and what
\* DiffSummary.password_protected says.
C9_PasswordPredicate ==
    /\ Called("protect_pdf") => Truthy(job.password)
    /\ pc \in {"download", "verify", "deliver", "returned"} =>
           (Called("protect_pdf") <=> Truthy(job.password))
    /\ IsSome(expectations) =>
           Get(expectations).should_be_encrypted = Truthy(job.password)
    /\ IsSome(diff) => Get(diff).password_protected = Truthy(job.password)

HasStep(name) == \E i \in DOMAIN timings : timings[i].step = name

C10_Step ==
    (~job.verify /\ state = "POST_PROCESSED" /\ state' # state) =>
        state' = "DELIVERED"

\* C10: with verify off the state goes from POST_PROCESSED straight to
\* DELIVERED, never VERIFIED; the verifier is not called, there is no verify
\* step record, and the JobResult has neither verification nor diff_summary.
\* With verify on, a delivered job has both.
C10_VerifyOption ==
    /\ []((~job.verify) =>
            /\ state # "VERIFIED"
            /\ pc # "verify"
            /\ IsNone(expectations)
            /\ ~HasStep("verify")
            /\ IsSome(result) =>
                 /\ IsNone(Get(result).verification)
                 /\ IsNone(Get(result).diff_summary))
    /\ []((job.verify /\ state = "DELIVERED") =>
            /\ IsSome(verification) /\ IsSome(diff)
            /\ IsSome(result) =>
                 /\ Get(result).verification = verification
                 /\ Get(result).diff_summary = diff)
    /\ [][C10_Step]_vars

C10_Witness == ~job.verify /\ state = "DELIVERED" /\ IsSome(result)

\* the artifact does not pass all seven checks: fitz cannot open it, or one
\* of the checks on the opened document is false
FailsCheck(pdf, exp) ==
    \/ ~pdf.parses
    \/ CountTrue(VerifyChecks(pdf, exp)) < Cardinality(DOMAIN VerifyChecks(pdf, exp))

\* C11: when the verifier (pymupdf at hand) has been given a final artifact
\* that fails one of the seven checks, the job is not aborted: the state is
\* VERIFIED or DELIVERED, the last step record is verify/ok, the report says
\* passed = false, and it is the report of the JobResult.
C11_VerifyFailureDelivers ==
    (job.verify /\ fitz /\ IsSome(expectations)
        /\ FailsCheck(ctx.final_pdf, Get(expectations))) =>
        /\ state \in {"VERIFIED", "DELIVERED"}
        /\ Last(timings) = StepTiming("verify", "ok", {})
        /\ IsSome(verification)
        /\ ~Get(verification).passed
        /\ IsSome(result) => Get(result).verification = verification

\* the phases that call a collaborator: the asset resolver, the generation
\* engine, PDF Services
CollaboratorPhases == {"resolve_assets", "generate", "post_process"}

\* C12: a job with a valid release document fails only when a collaborator
\* call failed, and otherwise is delivered; the JobResult of a delivered job
\* carries the SHA-256 and the length of ctx.final_pdf, which are the bytes
\* the download call returned.
C12_ContentHash ==
    /\ (Violations(job.raw_data) = {} /\ pc = "raised") =>
           Get(phaseError).phase \in CollaboratorPhases
    /\ IsSome(result) =>
           /\ state = "DELIVERED"
           /\ ctx.final_pdf \in DownloadedArtifacts
           /\ Get(result).artifact.content_hash = Sha256(ctx.final_pdf.id)
           /\ Get(result).artifact.size_bytes = ctx.final_pdf.len

\* an image or attachment entry of the raw input has ".." in its path
HasTraversal(raw) ==
    \/ \E i \in DOMAIN raw.images : HasDotDot(raw.images[i].path)
    \/ \E i \in DOMAIN raw.attachments : HasDotDot(raw.attachments[i].path)

\* C13: a job whose valid release document has an asset path with ".." is,
\* once the asset phase has run and whatever asset_dir is, FAILED by an
\* AssetPathTraversalError raised in resolve_assets, and the generation
\* collaborator was never called.
C13_TraversalAborts ==
    (Violations(job.raw_data) = {} /\ HasTraversal(job.raw_data)
        /\ pc \notin {"init", "validate", "resolve_assets"}) =>
        /\ state = "FAILED"
        /\ IsSome(phaseError)
        /\ Get(phaseError).phase = "resolve_assets"
        /\ Get(phaseError).exc.type = "AssetPathTraversalError"
        /\ calls = << >>

C14_Step ==
    (pc = "resolve_assets" /\ pc' # pc) =>
        IF Get(ctx.release).images = << >> /\ Get(ctx.release).attachments = << >>
        THEN /\ ctx' = ctx
             /\ Len(timings') = Len(timings) + 1
             /\ SubSeq(timings', 1, Len(timings)) = timings
             /\ Last(timings').step = "resolve_assets"
             /\ Last(timings').status = "skipped"
             /\ state' = "ASSET_RESOLVED"
             /\ phaseError' = None
        ELSE \A i \in DOMAIN timings' : timings'[i].status # "skipped"

\* C14: for a document without images and attachments the asset phase
\* leaves the context as it is (no resolved entry, no warning), appends the
\* one record resolve_assets/skipped and enters ASSET_RESOLVED; a document
\* with an image or an attachment never gets a skipped record.
C14_SkipNoOp ==
    /\ [][C14_Step]_vars
    /\ [](\A i \in DOMAIN timings :
            timings[i].status = "skipped" =>
                /\ timings[i].step = "resolve_assets"
                /\ job.raw_data.images = << >>
                /\ job.raw_data.attachments = << >>
                /\ ctx.warnings = << >>)

C14_Witness ==
    /\ state = "ASSET_RESOLVED"
    /\ Len(timings) = 2
    /\ timings[2] = StepTiming("resolve_assets", "skipped", {<<"no assets", "">>})

\* ceil(poll_timeout / poll_interval)
MaxPolls == (PollTimeout + PollInterval - 1) \div PollInterval

\* the step is the handling of the answer to a poll
PollAnswered == pc = "poll" /\ Arrived("poll") /\ Len(net') < Len(net)

C15_Step ==
    /\ PollAnswered =>
         CASE Answer.outcome = "COMPLETED" ->
                /\ calls' = Append(calls, Return(pp.op, Answer.handle))
                /\ pp'.doc_id = Answer.handle
                /\ pc' \in {"submit", "download"}
                /\ phaseError' = None
           [] Answer.outcome = "FAILED" ->
                /\ pc' = "raised"
                /\ Get(raised').type = "RuntimeError"
                /\ calls' = calls
           [] Answer.outcome = "PENDING" ->
                IF pp.polls < MaxPolls
                THEN /\ pc' = "poll"
                     /\ pp'.elapsed = pp.elapsed + PollInterval
                     /\ pp'.polls = pp.polls
                     /\ calls' = calls
                ELSE /\ pc' = "raised"
                     /\ Get(raised').type = "TimeoutError"
           [] OTHER -> TRUE
    /\ (pc = "poll" /\ calls' # calls) =>
         (PollAnswered /\ Answer.outcome = "COMPLETED")

TaskFailedExc == Exc("RuntimeError", << >>)
HttpStatusExc == Exc("HTTPStatusError", << >>)

C16_Step ==
    (PollAnswered /\ Answer.outcome = "PENDING" /\ pp.polls >= MaxPolls) =>
        /\ state' = "FAILED"
        /\ IsSome(raised')
        /\ Get(raised').type \notin {TaskFailedExc.type, HttpStatusExc.type}
        /\ IsDocForgeError(Get(raised'))
        /\ Get(raised').code # ""
        /\ Get(raised').code \notin {TaskFailedExc.code, HttpStatusExc.code}

\* C16: when the poll budget is used up the job becomes FAILED and run()
\* raises an error that differs from the one of a failed task and from the
\* one of a non-success response, and that is an error of the taxonomy
\* (a DocForgeError) with a code of its own.
C16_TimeoutDistinct == [][C16_Step]_vars

\* the step is the handling of the answer to one submission attempt
SubmitAnswered == pc = "submit" /\ Arrived("submit") /\ Len(net') < Len(net)

C17_Step ==
    SubmitAnswered =>
        IF Answer.outcome \in HttpFailures
        THEN IF pp.attempt < MAX_RETRIES + 1
             THEN /\ pc' = "submit"
                  /\ pp'.op = pp.op
                  /\ pp'.doc_id = pp.doc_id
                  /\ pp'.attempt = pp.attempt + 1
                  /\ state' = state
                  /\ phaseError' = None
             ELSE /\ pc' = "raised"
                  /\ state' = "FAILED"
                  /\ raised' = Some(Exc(Answer.outcome, << >>))
                  /\ Get(phaseError').phase = "post_process"
        ELSE /\ phaseError' = None
             /\ pc' \in {"poll", "submit", "download"}
             /\ pc' = "submit" => (pp'.op = NextOp(pp.op) /\ pp'.attempt = 1)
             /\ pc' = "poll" => pp'.op = pp.op
             /\ Answer.outcome = "result" =>
                    calls' = Append(calls, Return(pp.op, Answer.handle))

\* C17: _submit_operation makes at most MAX_RETRIES + 1 attempts for an
\* operation: a failed attempt is followed by the next one while attempts
\* are left, the last failure is raised and fails the phase and the job, and
\* a successful attempt is never followed by another attempt.
C17_SubmitRetry ==
    /\ [][C17_Step]_vars
    /\ [](pc = "submit" => pp.attempt \in 1 .. (MAX_RETRIES + 1))

C17_Witness ==
    /\ pc = "raised" /\ pp.op = "add_watermark"
    /\ pp.attempt = MAX_RETRIES + 1
    /\ IsSome(pp.last_err)
    /\ Get(raised).type = "TransportError"
    /\ Get(pp.last_err).type = "HTTPStatusError"

\* how many times a method of the collaborators was called
CountCalls(method) ==
    Cardinality({i \in DOMAIN calls :
                   calls[i].ev = "call" /\ calls[i].method = method})

C18_Step ==
    (pc \in {"generate", "upload", "poll", "download"} /\ Arrived(pc)
        /\ Len(net') < Len(net) /\ Answer.outcome \in HttpFailures) =>
        /\ pc' = "raised"
        /\ state' = "FAILED"
        /\ raised' = Some(Exc(Answer.outcome, << >>))
        /\ net' = << >>
        /\ calls' = calls

\* C18: the generation call, the upload, each poll and the download are
\* made once: a transport failure or non-success response to any of them is
\* raised at once and fails the job, and no job calls generation, upload or
\* download a second time.
C18_NoOtherRetry ==
    /\ [][C18_Step]_vars
    /\ [](/\ CountCalls("generate") <= 1
          /\ CountCalls("upload_pdf") <= 1
          /\ CountCalls("download_pdf") <= 1)
    /\ [](pc = "raised" => net = << >>)

C18_Witness ==
    /\ pc = "raised" /\ pp.polls = 2 /\ pp.op = "add_watermark"
    /\ Get(raised).type = "TransportError"
    /\ CountCalls("upload_pdf") = 1

C19_Step ==
    /\ Len(net') > Len(net) => (net = << >> /\ Last(net').req = pc /\ pc' = pc)
    /\ pc' # pc => net' = << >>

\* C19: a job has at most one collaborator request outstanding; a request
\* is issued only when none is outstanding and belongs to the call run()
\* stands at, and run() moves on to the next call or phase only when the
\* answer has been handled.
C19_Sequential ==
    /\ [](Len(net) <= 1)
    /\ [](net # << >> => Head(net).req = pc)
    /\ [][C19_Step]_vars

C19_Witness ==
    /\ Len(net) = 1 /\ pc = "poll" /\ pp.op = "protect_pdf"
    /\ Head(net).resp.outcome = "PENDING"

\* the state of job k, running or not
View(k) == IF Cur = k THEN Own ELSE Get(other)

\* the warnings and the release document a job gets from its own input
AloneWarnings(j) ==
    IF Violations(j.raw_data) = {}
    THEN ResolveAssets(ReleaseModel(j.raw_data), j.asset_dir).warnings
    ELSE << >>
AloneRelease(j) == ResolveAssets(ReleaseModel(j.raw_data), j.asset_dir).model

\* what job k holds is what it would hold had it run alone
OwnOutcome(k) ==
    LET v == View(k)
    IN /\ IsSome(v.ctx.release) =>
            Get(v.ctx.release) \in {ReleaseModel(v.job.raw_data), AloneRelease(v.job)}
       /\ v.ctx.warnings \in {<< >>, AloneWarnings(v.job)}
       /\ IsSome(v.result) =>
            /\ Get(v.result).input_hash = InputHash(v.job.raw_data, v.job.key_order)
            /\ Get(v.result).timings = v.timings
            /\ Get(v.result).warnings = AloneWarnings(v.job)
            /\ Get(v.result).artifact.content_hash = Sha256(v.ctx.final_pdf.id)
            /\ Get(v.result).before_pdf_id = v.ctx.base_pdf_doc_id
            /\ Get(v.result).after_pdf_id = v.ctx.final_pdf_doc_id

C20_Step ==
    /\ Cur' # Cur => (View("A")' = View("A") /\ View("B")' = View("B"))
    /\ Cur' = Cur => other' = other

\* C20: with two jobs interleaved at every await, a step of one job leaves
\* the state, context, step records and frame of the other as they are, and
\* resuming a job finds them as the job left them; so a job's release
\* document, warnings and JobResult are those of its own input and answers,
\* and a job becomes FAILED only by a step of its own.
C20_Isolated ==
    /\ [][C20_Step]_vars
    /\ [](OwnOutcome("A") /\ OwnOutcome("B"))

C20_Witness ==
    /\ View("A").state = "DELIVERED" /\ IsSome(View("A").result)
    /\ Get(View("A").result).warnings = << >>
    /\ View("B").state = "FAILED"
    /\ View("B").ctx.warnings # << >>
    /\ Get(View("B").phaseError).phase = "post_process"
    /\ \* A was delivered while B was still awaiting an answer
       Len(View("A").calls) > Len(View("B").calls)

(***************************************************************************)
(* The verifier's checks, read off the artifact                            *)
(***************************************************************************)
VerifierReturned == pc # "verifier" /\ IsSome(verification)
Inspected == fitz /\ VerifierReturned
Artifact == ctx.final_pdf
Expected == Get(expectations)
Rep == Get(verification)

CasePairs ==
    {<<"a", "A">>, <<"c", "C">>, <<"d", "D">>, <<"e", "E">>, <<"h", "H">>,
     <<"i", "I">>, <<"m", "M">>, <<"n", "N">>, <<"p", "P">>, <<"s", "S">>,
     <<"t", "T">>, <<"y", "Y">>}
\* the same character up to case
FoldEq(a, b) == a = b \/ <<a, b>> \in CasePairs \/ <<b, a>> \in CasePairs
\* sub occurs in str, up to case
OccursFolded(sub, str) ==
    \E k \in 0 .. (Len(str) - Len(sub)) :
        \A i \in 1 .. Len(sub) : FoldEq(str[k + i], sub[i])
PagesWith(sub, pdf) ==
    {i \in 1 .. Len(pdf.pages) : OccursFolded(sub, pdf.pages[i].text)}

\* the seven checks of an artifact against expectations, in the order
\* opens_and_parses, page_count_stable, has_text_content,
\* watermark_detected, watermark_all_pages, encryption_matches,
\* no_annotations
SevenChecks(pdf, exp) ==
    << Len(pdf.pages) >= 1,
       exp.expected_pages = None \/ exp.expected_pages = Some(Len(pdf.pages)),
       \E i \in 1 .. Len(pdf.pages) :
           \E k \in 1 .. Len(pdf.pages[i].text) : pdf.pages[i].text[k] # " ",
       Len(exp.watermark_text) = 0 \/ PagesWith(exp.watermark_text, pdf) # {},
       Len(exp.watermark_text) = 0
           \/ PagesWith(exp.watermark_text, pdf) = 1 .. Len(pdf.pages),
       pdf.encrypted <=> exp.should_be_encrypted,
       \A i \in 1 .. Len(pdf.pages) : pdf.pages[i].annots = 0 >>
NumberHolding(bools) == Cardinality({i \in 1 .. Len(bools) : bools[i]})

\* C21: when document inspection is available, the report verify returns
\* counts exactly seven checks: checks_total is 7, checks_passed is the
\* number of the seven checks that hold of the artifact, it lies between 0
\* and checks_total, and passed is true exactly when all seven hold.
C21_SevenChecks ==
    Inspected =>
        /\ Rep.checks_total = 7
        /\ Rep.checks_passed = NumberHolding(SevenChecks(Artifact, Expected))
        /\ Rep.checks_passed \in 0 .. Rep.checks_total
        /\ Rep.passed <=> Rep.checks_passed = Rep.checks_total
        /\ Rep.passed <=> \A i \in 1 .. 7 : SevenChecks(Artifact, Expected)[i]
\* a report with some checks passed and some failed
C21_Witness ==
    /\ Inspected
    /\ Rep.checks_passed \in 1 .. 6
    /\ ~Rep.passed

\* C22: verify returns a report for every artifact it is given, also for
\* one that does not open, one without pages and when inspection is
\* unavailable, and the report carries the artifact's length and SHA-256.
C22_AlwaysReports ==
    pc # "verifier" =>
        /\ IsSome(verification)
        /\ Rep.file_size = Artifact.len
        /\ Rep.content_hash = Sha256(Artifact.id)

\* C23: with an empty expected watermark text both watermark checks pass
\* for every inspected artifact, whatever its pages; with a non-empty one
\* watermark_detected holds exactly when the text occurs, up to case, in
\* the text of at least one page and watermark_all_pages exactly when it
\* occurs in the text of every page.
C23_Watermark ==
    Inspected =>
        /\ Expected.watermark_text = << >> =>
               Rep.watermark_detected /\ Rep.watermark_on_all_pages
        /\ Expected.watermark_text # << >> =>
               /\ Rep.watermark_detected <=>
                      PagesWith(Expected.watermark_text, Artifact) # {}
               /\ Rep.watermark_on_all_pages <=>
                      PagesWith(Expected.watermark_text, Artifact)
                          = 1 .. Len(Artifact.pages)
\* a lower-case expectation found on one of two pages whose text has it in
\* mixed case: detected, not on all pages
C23_Witness ==
    /\ Inspected
    /\ Expected.watermark_text = <<"i", "n", "t">>
    /\ Len(Artifact.pages) = 2
    /\ Rep.watermark_detected
    /\ ~Rep.watermark_on_all_pages

\* the encryption check of a report: it is one of the seven, and the other
\* six are known from the artifact
EncryptionCheck ==
    Rep.checks_passed
        - NumberHolding([i \in 1 .. 7 |->
                             i # 6 /\ SevenChecks(Artifact, Expected)[i]])

\* C24: the encryption check is boolean equality of the artifact's
\* encryption flag and the expected one: it fails for an encrypted
\* artifact when encryption was not expected and for an unencrypted one
\* when it was; the report's is_encrypted is the artifact's flag.
C24_EncryptionExact ==
    Inspected =>
        /\ EncryptionCheck = 1 <=> (Artifact.encrypted = Expected.should_be_encrypted)
        /\ EncryptionCheck = 0 <=> (Artifact.encrypted # Expected.should_be_encrypted)
        /\ Rep.is_encrypted = Artifact.encrypted
\* an encrypted artifact where none was expected: the check fails and the
\* report shows the artifact's flag
C24_Witness ==
    /\ Inspected
    /\ Artifact.encrypted
    /\ ~Expected.should_be_encrypted
    /\ EncryptionCheck = 0
    /\ Rep.is_encrypted


\* the report of a runtime without document inspection
IsVacuous(rep, pdf) ==
    /\ rep.checks_total = 0 /\ rep.checks_passed = 0 /\ rep.passed
    /\ rep.file_size = pdf.len /\ rep.content_hash = Sha256(pdf.id)
    /\ rep.page_count = 0
    /\ ~rep.has_text /\ ~rep.watermark_detected /\ ~rep.watermark_on_all_pages
    /\ ~rep.is_encrypted /\ ~rep.flattening_signals
\* a summary that says nothing but the size delta
OnlySizeDelta(d, before, after) ==
    /\ d.size_change_bytes = after.len - before.len
    /\ ~d.watermark_applied /\ ~d.flattened /\ ~d.password_protected

C25_Step ==
    ~fitz =>
        /\ pc = "verify" =>
               /\ state' = "VERIFIED" /\ pc' = "deliver"
               /\ raised' = None /\ phaseError' = None
               /\ IsSome(verification')
               /\ IsVacuous(Get(verification'), ctx.final_pdf)
               /\ IsSome(diff')
               /\ OnlySizeDelta(Get(diff'), ctx.base_pdf, ctx.final_pdf)
        /\ pc = "deliver" =>
               /\ state' = "DELIVERED"
               /\ IsSome(result') =>
                      /\ Get(result').verification = verification
                      /\ Get(result').diff_summary = diff

\* C25: without the document-inspection capability the verify phase does
\* not fail the job: verify returns the vacuous report (0 of 0 checks,
\* passed, with size and hash), diff a summary with the size delta alone,
\* the job becomes VERIFIED and the next step delivers it.
C25_InspectionOptional == [][C25_Step]_vars
\* a job delivered without inspection, on bytes no inspection would open
C25_Witness ==
    /\ ~fitz
    /\ job.verify
    /\ state = "DELIVERED"
    /\ IsSome(result)
    /\ IsSome(Get(result).verification)
    /\ Get(Get(result).verification).checks_total = 0
    /\ Get(Get(result).verification).passed
    /\ ~ctx.final_pdf.parses
    /\ \E i \in DOMAIN timings :
           timings[i].step = "verify" /\ timings[i].status = "ok"

(***************************************************************************)
(* The diff summary, read off the pair of artifacts                        *)
(***************************************************************************)
DiffReturned == pc = "compared" /\ IsSome(diff)
Before == ctx.base_pdf
After == ctx.final_pdf
Summary == Get(diff)
HasAnnotations(pdf) == \E i \in 1 .. Len(pdf.pages) : pdf.pages[i].annots > 0

\* C26: with document inspection, diff reports flattened exactly when the
\* before-artifact has at least one annotation over all its pages and the
\* after-artifact has none: not when neither has any, and not when some
\* remain afterwards.
C26_FlattenedStrict ==
    (fitz /\ DiffReturned) =>
        /\ Summary.flattened <=> (HasAnnotations(Before) /\ ~HasAnnotations(After))
        /\ (~HasAnnotations(Before) /\ ~HasAnnotations(After)) => ~Summary.flattened
        /\ HasAnnotations(After) => ~Summary.flattened
\* annotations before, none after: reported as flattened
C26_Witness ==
    /\ fitz /\ DiffReturned
    /\ HasAnnotations(Before) /\ ~HasAnnotations(After)
    /\ Summary.flattened

Finished(v) == v.pc \in {"returned", "raised"}
\* the same release document and the same options
SameJob(a, b) ==
    /\ a.raw_data = b.raw_data /\ a.engine = b.engine
    /\ a.watermark_text = b.watermark_text /\ a.password = b.password
    /\ a.asset_dir = b.asset_dir /\ a.verify = b.verify
\* the hash of a raw document, from the document alone
RawHash(d) ==
    LET ks == KeysAscending(d) IN Sha256([i \in DOMAIN ks |-> <<ks[i], d[ks[i]]>>])
StepsOf(v) == [i \in DOMAIN v.timings |-> <<v.timings[i].step, v.timings[i].status>>]

\* C28: two runs of the same release document with the same options,
\* against collaborators that answer the same requests alike, end in the
\* same state with the same exception or with JobResults equal in every
\* field (filename, pages, input_hash, content_hash, verification report,
\* diff, step names and statuses); input_hash is that of the raw document
\* alone, whatever the order of its keys and whatever the options.
C28_Idempotent ==
    (IsSome(other) /\ IsSome(stub) /\ SameJob(View("A").job, View("B").job)
        /\ Finished(View("A")) /\ Finished(View("B"))) =>
        /\ View("A").state = View("B").state
        /\ View("A").raised = View("B").raised
        /\ StepsOf(View("A")) = StepsOf(View("B"))
        /\ View("A").result = View("B").result
        /\ \A k \in {"A", "B"} :
               IsSome(View(k).result) =>
                   Get(View(k).result).input_hash = RawHash(View(k).job.raw_data)
\* both runs delivered, from dicts holding their keys in different orders,
\* after a retried submission and a download, with a verification report
C28_Witness ==
    /\ IsSome(other) /\ IsSome(stub)
    /\ Get(stub).submit_failures = 1
    /\ View("A").job.key_order # View("B").job.key_order
    /\ View("A").state = "DELIVERED" /\ View("B").state = "DELIVERED"
    /\ IsSome(View("A").result) /\ IsSome(View("B").result)
    /\ IsSome(Get(View("A").result).verification)
    /\ Get(View("A").result).artifact.pages = 1


(***************************************************************************)
(* The artifact metadata of a JobResult                                    *)
(***************************************************************************)
Delivered == pc = "returned" /\ IsSome(result)
Meta == Get(result).artifact
FilenameClass ==
    {"a", "b", "c", "d", "e", "f", "g", "h", "i", "j", "k", "l", "m", "n", "o",
     "p", "q", "r", "s", "t", "u", "v", "w", "x", "y", "z", "0", "1", "2", "3",
     "4", "5", "6", "7", "8", "9", "-", "_"}
\* the product names of the inputs, sanitised by hand
Sanitized(product) ==
    CASE product = <<"A", "c", "m", "e">> -> <<"a", "c", "m", "e">>
      [] product = <<"M", "y", " ", "A", "p", "!">> -> <<"m", "y", "-", "a", "p">>
FixedSuffix ==
    <<"-", "r", "e", "l", "e", "a", "s", "e", "-", "n", "o", "t", "e", "s", ".",
      "p", "d", "f">>

\* C29: the filename of a delivered job is the sanitised product name,
\* "-v", the version and "-release-notes.pdf"; sanitising lower-cases the
\* name, turns each space into a hyphen and drops every character outside
\* a-z, 0-9, hyphen and underscore, so the product part has no other
\* character.
C29_Filename ==
    Delivered =>
        LET part == Sanitized(job.raw_data.product_name)
        IN /\ Meta.filename = part \o <<"-", "v">> \o job.raw_data.version \o FixedSuffix
           /\ \A i \in 1 .. Len(part) : Meta.filename[i] \in FilenameClass
\* 'My Ap!' delivered as my-ap-v1.0.0-release-notes.pdf
C29_Witness ==
    /\ Delivered
    /\ job.raw_data.product_name = <<"M", "y", " ", "A", "p", "!">>
    /\ SubSeq(Meta.filename, 1, 7) = <<"m", "y", "-", "a", "p", "-", "v">>

\* C30: counting the pages of the final artifact never fails the job: a
\* returned run is DELIVERED with nothing raised, and artifact.pages is the
\* artifact's page count when the capability is there and opens the bytes,
\* and 0 when it is absent or does not open them.
C30_PagesBestEffort ==
    pc = "returned" =>
        /\ state = "DELIVERED" /\ raised = None /\ IsSome(result)
        /\ Meta.pages = IF fitz /\ ctx.final_pdf.parses
                        THEN Len(ctx.final_pdf.pages) ELSE 0
        /\ Meta.size_bytes = ctx.final_pdf.len
\* delivered with pages = 0 although the capability is there: the bytes
\* do not open
C30_Witness ==
    /\ Delivered
    /\ state = "DELIVERED"
    /\ fitz
    /\ ~ctx.final_pdf.parses
    /\ Meta.pages = 0


(***************************************************************************)
(* The step records                                                        *)
(***************************************************************************)
PhaseNames == <<"validate", "resolve_assets", "generate", "post_process", "verify">>
PhaseIndex(name) == CHOOSE i \in DOMAIN PhaseNames : PhaseNames[i] = name
\* records of distinct phases, in phase order, each with a known status
WellFormedRecords(t) ==
    /\ \A i \in DOMAIN t :
           /\ t[i].step \in {PhaseNames[n] : n \in DOMAIN PhaseNames}
           /\ t[i].status \in {"ok", "skipped", "failed"}
    /\ \A i, j \in DOMAIN t :
           i < j => PhaseIndex(t[i].step) < PhaseIndex(t[j].step)
\* the records of a delivered job
DeliveredRecords(t, verifyWanted) ==
    /\ [i \in DOMAIN t |-> t[i].step] =
           IF verifyWanted THEN PhaseNames ELSE SubSeq(PhaseNames, 1, 4)
    /\ \A i \in DOMAIN t :
           \/ t[i].status = "ok"
           \/ t[i].step = "resolve_assets" /\ t[i].status = "skipped"

C31_Step ==
    /\ \/ timings' = timings
       \/ /\ Len(timings') = Len(timings) + 1
          /\ SubSeq(timings', 1, Len(timings)) = timings
    /\ WellFormedRecords(timings')
    /\ state' = "DELIVERED" => DeliveredRecords(timings', job.verify)

\* C31: the step records of a job only grow by appending; they hold at
\* most one record per phase, in phase order, with status ok, skipped or
\* failed; a delivered job has the records validate, resolve_assets,
\* generate, post_process and, exactly when verification was requested,
\* verify, all ok except that resolve_assets may be skipped.
C31_AppendOnly == [][C31_Step]_vars
\* a delivered job with five records, resolve_assets skipped
C31_Witness ==
    /\ state = "DELIVERED"
    /\ Len(timings) = 5
    /\ timings[2].status = "skipped"
    /\ timings[5].step = "verify"


\* the answer to a submission is a failure that may pass: no response at
\* all, or a server-error status
Transient(r) ==
    \/ r.outcome = "TransportError"
    \/ r.outcome = "HTTPStatusError" /\ r.status >= 500
\* the submission is made again
Resubmitted == pc' = "submit" /\ pp'.attempt = pp.attempt + 1 /\ raised' = None

C32_Step ==
    (pc = "submit" /\ Arrived("submit") /\ Len(net') < Len(net)
        /\ Answer.outcome \in HttpFailures) =>
        /\ Resubmitted => Transient(Answer)
        /\ ~Transient(Answer) =>
               /\ pp.attempt = 1 => state' = "FAILED" /\ pc' = "raised"
               /\ ~Resubmitted

\* C32: a transform submission is made again only after a transient
\* failure, a transport error or a server-error response; a submission
\* answered with a client-error status such as 400 is not made again and
\* fails the phase after the one attempt.
C32_TransientOnly == [][C32_Step]_vars


(***************************************************************************)
(* Assets without a directory to find them in                              *)
(***************************************************************************)
AssetsOf(m) == m.images \o m.attachments
Untouched(m) ==
    \A i \in DOMAIN AssetsOf(m) :
        AssetsOf(m)[i].resolved_path = None /\ AssetsOf(m)[i].sha256 = None
\* no asset directory was given, or the one given does not exist
NoDirectory == job.asset_dir \in {None, Some("nodir")}

C33_Step ==
    (pc = "resolve_assets" /\ AssetsOf(Get(ctx.release)) # << >> /\ NoDirectory) =>
        /\ raised' = None /\ phaseError' = None
        /\ state' = "ASSET_RESOLVED" /\ pc' = "generate"
        /\ Len(ctx'.warnings) = Len(ctx.warnings) + 1
        /\ SubSeq(ctx'.warnings, 1, Len(ctx.warnings)) = ctx.warnings
        /\ ctx'.release = ctx.release
        /\ Untouched(Get(ctx'.release))
        /\ timings' = Append(timings, timings'[Len(timings')])
        /\ timings'[Len(timings')].step = "resolve_assets"
        /\ timings'[Len(timings')].status = "ok"

ClientMethods ==
    {"upload_pdf", "add_watermark", "flatten_pdf", "protect_pdf", "download_pdf"}
\* the calls made to the PDF Services client and their returns, in order
ClientLog(log) == SelectSeq(log, LAMBDA e : e.method \in ClientMethods)
\* the method whose returned handle a method is given
Feeds(method, withPassword) ==
    CASE method = "add_watermark" -> "upload_pdf"
      [] method = "flatten_pdf" -> "add_watermark"
      [] method = "protect_pdf" -> "flatten_pdf"
      [] method = "download_pdf" ->
           IF withPassword THEN "protect_pdf" ELSE "flatten_pdf"
\* every call after the upload is given the handle the call before it returned
Chained(log, withPassword) ==
    \A i \in DOMAIN log :
        (log[i].ev = "call" /\ log[i].method # "upload_pdf") =>
            /\ i > 1
            /\ log[i - 1].ev = "return"
            /\ log[i - 1].method = Feeds(log[i].method, withPassword)
            /\ log[i].handle = log[i - 1].handle
HandleReturnedBy(log, method) ==
    log[CHOOSE i \in DOMAIN log : log[i].ev = "return" /\ log[i].method = method].handle
HandleGivenTo(log, method) ==
    log[CHOOSE i \in DOMAIN log : log[i].ev = "call" /\ log[i].method = method].handle

C34_Step ==
    LET log == ClientLog(calls')
    IN /\ Chained(log, job.password # None /\ job.password # Some(<< >>))
       /\ ctx'.final_pdf # ctx.final_pdf =>
              /\ pc = "download" /\ Arrived("download")
              /\ ctx'.final_pdf = Answer.bytes
              /\ ctx'.final_pdf_doc_id = HandleGivenTo(log, "download_pdf")
       /\ IsSome(result') =>
              /\ Get(result').before_pdf_id = HandleReturnedBy(log, "upload_pdf")
              /\ Get(result').after_pdf_id = HandleGivenTo(log, "download_pdf")

\* C34: watermark is given the handle upload returned, flatten the handle
\* watermark returned, protect, when there is a password, the handle
\* flatten returned, and download the handle of the last transform; the
\* final bytes are the bytes that download answered with and nothing
\* else; before_pdf_id is the upload handle and after_pdf_id the handle
\* downloaded.
C34_HandlesChained == [][C34_Step]_vars
\* a delivered job with a password: four handles, each passed on
C34_Witness ==
    /\ state = "DELIVERED" /\ IsSome(result)
    /\ job.password = Some(<<"s", "3">>)
    /\ Get(result).before_pdf_id = Some("doc-upload")
    /\ Get(result).after_pdf_id = Some("doc-protect")
    /\ ctx.final_pdf = FinalEncryptedPdf


\* C35: every handle the orchestrator passes to a transform or to download
\* is one the collaborator returned, never an absent one: a response or a
\* completed poll without a result handle does not hand None to the next
\* call.
C35_NoAbsentHandle ==
    \A i \in DOMAIN calls :
        (calls[i].ev = "call"
            /\ calls[i].method \in ClientMethods \ {"upload_pdf"}) =>
            IsSome(calls[i].handle)


(***************************************************************************)
(* The context against the state                                           *)
(***************************************************************************)
StateRank(st) ==
    CASE st = "RECEIVED" -> 0 [] st = "VALIDATED" -> 1
      [] st = "ASSET_RESOLVED" -> 2 [] st = "BASE_PDF_GENERATED" -> 3
      [] st = "POST_PROCESSED" -> 4 [] st = "VERIFIED" -> 5
      [] st = "DELIVERED" -> 6 [] st = "FAILED" -> 0 - 1
\* the number of phases run() has entered
PhasesStarted ==
    CASE pc = "init" -> 0
      [] pc = "validate" -> 1
      [] pc = "resolve_assets" -> 2
      [] pc = "generate" -> 3
      [] pc \in {"upload", "submit", "poll", "download"} -> 4
      [] pc = "raised" /\ IsSome(phaseError) -> PhaseIndex(Get(phaseError).phase)
      [] OTHER -> IF job.verify THEN 5 ELSE 4
\* release, base bytes and final bytes as the state requires them
ContextFollowsState ==
    /\ StateRank(state) >= 1 => IsSome(ctx.release)
    /\ StateRank(state) >= 3 => ctx.base_pdf \in GeneratedArtifacts
    /\ StateRank(state) >= 4 => ctx.final_pdf \in DownloadedArtifacts
    /\ StateRank(state) \in 0 .. 3 =>
           ctx.final_pdf = EmptyBytes /\ ctx.final_pdf_doc_id = None
    /\ Len(timings) <= PhasesStarted

\* C36: in every reachable state, from VALIDATED on the release document
\* is set; from BASE_PDF_GENERATED on the base bytes are those generation
\* returned; in POST_PROCESSED, VERIFIED and DELIVERED the base handle, the
\* final handle and the final bytes are set; before POST_PROCESSED the
\* final bytes and handle are unset; and there are never more step records
\* than phases started.
C36_ContextAccumulates ==
    /\ ContextFollowsState
    /\ StateRank(state) >= 4 =>
           IsSome(ctx.base_pdf_doc_id) /\ IsSome(ctx.final_pdf_doc_id)


\* C37: run() returns a JobResult only in state DELIVERED, and whenever
\* run() has raised the state is FAILED: nothing raises after the state
\* was set to DELIVERED.
C37_OutcomeMatchesState ==
    /\ pc = "returned" => (state = "DELIVERED" /\ IsSome(result) /\ raised = None)
    /\ pc = "raised" => (state = "FAILED" /\ IsSome(raised) /\ result = None)


\* C38: every job terminates: when every collaborator request is answered,
\* run() reaches DELIVERED or FAILED, for every poll interval and timeout
\* configured, also when a task stays pending for ever.
C38_Terminates == <>(state \in {"DELIVERED", "FAILED"})


\* C39: in every report verify returns, watermark_on_all_pages implies
\* watermark_detected, for every artifact, also one without pages, and
\* every non-empty expected watermark text.
C39_AllPagesImpliesDetected ==
    VerifierReturned => (Rep.watermark_on_all_pages => Rep.watermark_detected)

====
